---- MODULE Spec2Model ----
(***************************************************************************)
(* A model of the Markdown -> Feishu docx block converter                  *)
(* (src/src/markdown-converter.ts), of its language table                  *)
(* (src/unnamed/part_000) and of the local conversion entry point          *)
(* (src/src/docx.ts).                                                      *)
(*                                                                         *)
(* A JavaScript string is a sequence of characters, a character a          *)
(* one-character string ("`" cannot be written in a string here, so the    *)
(* backtick is the character BT).  The regular expressions are modelled    *)
(* as the source writes them: most of them escape the backslash itself     *)
(* (/\\s+/ is a backslash followed by one or more letters s, not white     *)
(* space), and the matchers below follow that text.                        *)
(***************************************************************************)
EXTENDS Integers, Sequences, FiniteSets, TLC

NL == "\n"
CR == "\r"
BS == "\\"
BT == "bt"
SP == " "

\* An optional value: undefined, or one value.
Undefined == <<>>
Defined(v) == <<v>>

\* ------------------------------------------------------------------------
\* String primitives of the language, as the source uses them.

\* White space as String.prototype.trim removes it.
IsWhiteSpace(c) == c \in {" ", "\t", "\n", "\r"}

\* The characters "." does not match, and at which ^ and $ match under /m.
LineTerminators == {"\n", "\r"}

NoLineTerminator(s) == \A k \in 1..Len(s) : s[k] \notin LineTerminators

RECURSIVE trimStart(_)
trimStart(s) ==
  IF s # <<>> /\ IsWhiteSpace(Head(s)) THEN trimStart(Tail(s)) ELSE s

RECURSIVE trimEnd(_)
trimEnd(s) ==
  IF s # <<>> /\ IsWhiteSpace(s[Len(s)])
  THEN trimEnd(SubSeq(s, 1, Len(s) - 1))
  ELSE s

trim(s) == trimEnd(trimStart(s))

startsWith(s, p) == Len(s) >= Len(p) /\ SubSeq(s, 1, Len(p)) = p

includes(s, c) == \E k \in 1..Len(s) : s[k] = c

\* s.slice(k) with a 0-based k.
sliceFrom(s, k) == SubSeq(s, k + 1, Len(s))

RECURSIVE split(_, _)
split(s, c) ==
  IF includes(s, c)
  THEN LET k == CHOOSE k \in 1..Len(s) :
                  s[k] = c /\ \A j \in 1..(k - 1) : s[j] # c
       IN <<SubSeq(s, 1, k - 1)>> \o split(SubSeq(s, k + 1, Len(s)), c)
  ELSE <<s>>

RECURSIVE join(_, _)
join(ss, sep) ==
  IF ss = <<>> THEN <<>>
  ELSE IF Len(ss) = 1 THEN ss[1]
  ELSE ss[1] \o sep \o join(Tail(ss), sep)

RECURSIVE repeat(_, _)
repeat(s, n) == IF n <= 0 THEN <<>> ELSE s \o repeat(s, n - 1)

padEnd(s, w) == s \o repeat(<<SP>>, w - Len(s))

\* The number of consecutive characters of s, from position k (1-based), that
\* are in C: what a greedy X* or X+ takes.
RECURSIVE Run(_, _, _)
Run(s, k, C) == IF k <= Len(s) /\ s[k] \in C THEN 1 + Run(s, k + 1, C) ELSE 0

CharAt(s, k) == IF k \in 1..Len(s) THEN s[k] ELSE ""

Fence == <<BT, BT, BT>>

\* lines[i] with the source's 0-based index.
LineAt(ls, i) == ls[i + 1]

\* ------------------------------------------------------------------------
\* The regular expressions of parseMarkdown, as written in the source.

\* /^(#{1,6})\\s+(.+)$/ : one to six "#", a backslash, one or more "s", then
\* one or more characters up to the end.  match[1] is the "#"s, match[2] the
\* rest (when nothing follows the "s"s, the last "s" is given back to (.+)).
headingMatch(t) ==
  LET h    == Run(t, 1, {"#"})
      m    == Run(t, h + 2, {"s"})
      rest == SubSeq(t, h + 2 + m, Len(t))
      no   == [ok |-> FALSE, level |-> 0, content |-> <<>>]
  IN IF h \in 1..6 /\ CharAt(t, h + 1) = BS /\ m >= 1 /\ NoLineTerminator(rest)
     THEN IF rest # <<>> THEN [ok |-> TRUE, level |-> h, content |-> rest]
          ELSE IF m >= 2 THEN [ok |-> TRUE, level |-> h, content |-> <<"s">>]
          ELSE no
     ELSE no

\* /^(---|\\*\\*\\*|___)\\s*$/ : "---", "___" or any number of backslashes,
\* then a backslash, then any number of "s", up to the end.
dividerMatch(t) ==
  \/ /\ startsWith(t, <<"-", "-", "-">>) \/ startsWith(t, <<"_", "_", "_">>)
     /\ CharAt(t, 4) = BS
     /\ 4 + Run(t, 5, {"s"}) = Len(t)
  \/ LET b == Run(t, 1, {BS})
     IN b >= 1 /\ b + Run(t, b + 1, {"s"}) = Len(t)

\* /^(\\s*)([-\\*+]|\\d+\\.)\\s+/ and, with rest, /...\\s+(.*)$/ : a backslash
\* and any number of "s" (group 1), a marker (one of - \ * +, or a backslash,
\* one or more "d", a backslash and any character), a backslash and one or
\* more "s".  indent is the length of group 1, body where the rest begins.
listPrefix(l) ==
  LET a    == Run(l, 2, {"s"})
      p    == 2 + a
      d    == Run(l, p + 1, {"d"})
      one  == CharAt(l, p) \in {"-", BS, "*", "+"}
                /\ CharAt(l, p + 1) = BS /\ Run(l, p + 2, {"s"}) >= 1
      num  == CharAt(l, p) = BS /\ d >= 1 /\ CharAt(l, p + 1 + d) = BS
                /\ p + 2 + d <= Len(l) /\ l[p + 2 + d] \notin LineTerminators
                /\ CharAt(l, p + 3 + d) = BS /\ Run(l, p + 4 + d, {"s"}) >= 1
      after == IF one THEN p + 1 ELSE p + 3 + d
  IN IF CharAt(l, 1) = BS /\ (one \/ num)
     THEN [ok |-> TRUE, indent |-> 1 + a,
           body |-> after + 1 + Run(l, after + 1, {"s"})]
     ELSE [ok |-> FALSE, indent |-> 0, body |-> 0]

\* /^\\d+\\./ : a backslash, one or more "d", a backslash, any character.
numberedStart(t) ==
  LET d == Run(t, 2, {"d"})
  IN CharAt(t, 1) = BS /\ d >= 1 /\ CharAt(t, 2 + d) = BS
       /\ 3 + d <= Len(t) /\ t[3 + d] \notin LineTerminators

\* /^\\s*\\d+\\./ : a backslash, any number of "s", then as numberedStart.
orderedStart(l) ==
  CharAt(l, 1) = BS /\ numberedStart(SubSeq(l, 2 + Run(l, 2, {"s"}), Len(l)))

isListItem(line) == listPrefix(line).ok

isBlockStart(line) ==
  LET trimmed == trim(line)
  IN \/ startsWith(trimmed, <<"#">>)
     \/ startsWith(trimmed, Fence)
     \/ startsWith(trimmed, <<">">>)
     \/ startsWith(trimmed, <<"-">>)
     \/ startsWith(trimmed, <<"*">>)
     \/ startsWith(trimmed, <<"+">>)
     \/ numberedStart(trimmed)
     \/ includes(trimmed, "|")
     \/ dividerMatch(trimmed)

\* ------------------------------------------------------------------------
\* parseTable, parseList and the construct a line starts.

\* /^[-:]+$/
alignmentCell(c) == c # <<>> /\ \A k \in 1..Len(c) : c[k] \in {"-", ":"}

\* line.split("|").map(trim).filter(c => c !== "")
tableCells(line) ==
  SelectSeq([k \in 1..Len(split(line, "|")) |-> trim(split(line, "|")[k])],
            LAMBDA c : c # <<>>)

RECURSIVE tableRows(_)
tableRows(ls) ==
  IF ls = <<>> THEN <<>>
  ELSE LET cells == tableCells(Head(ls))
       IN (IF Len(cells) > 0 THEN <<cells>> ELSE <<>>) \o tableRows(Tail(ls))

\* A variant of parseTable: the test on the number of lines is left out.
parseTableAnyLines(ls) ==
  LET all  == tableRows(ls)
      rows == IF Len(all) >= 2
                 /\ \A k \in 1..Len(all[2]) : alignmentCell(all[2][k])
              THEN <<all[1]>> \o SubSeq(all, 3, Len(all))
              ELSE all
  IN IF Len(rows) = 0 THEN Undefined
     ELSE Defined([type |-> "table", rows |-> rows])

\* Undefined stands for the null parseTable returns.
parseTable(ls) ==
  IF Len(ls) < 2 THEN Undefined
  ELSE LET all  == tableRows(ls)
           rows == IF Len(all) >= 2
                      /\ \A k \in 1..Len(all[2]) : alignmentCell(all[2][k])
                   THEN <<all[1]>> \o SubSeq(all, 3, Len(all))
                   ELSE all
       IN IF Len(rows) = 0 THEN Undefined
          ELSE Defined([type |-> "table", rows |-> rows])

\* line.match(/^(\\s*)(?:[-\\*+]|\\d+\\.)\\s+(.*)$/)
listItemMatch(line) ==
  LET m    == listPrefix(line)
      rest == SubSeq(line, m.body, Len(line))
  IN IF m.ok /\ NoLineTerminator(rest)
     THEN [ok |-> TRUE, indent |-> m.indent, content |-> rest]
     ELSE [ok |-> FALSE, indent |-> 0, content |-> <<>>]

\* The inner loop of parseList: the index after the lines that continue an item.
RECURSIVE itemEnd(_, _)
itemEnd(ls, i) ==
  IF i < Len(ls) /\ trim(LineAt(ls, i)) # <<>> /\ ~isListItem(LineAt(ls, i))
  THEN itemEnd(ls, i + 1)
  ELSE i

\* The outer loop of parseList.
RECURSIVE listLoop(_, _, _, _)
listLoop(ls, i, baseIndent, items) ==
  IF i >= Len(ls) THEN [items |-> items, nextIndex |-> i]
  ELSE LET line == LineAt(ls, i)
           m    == listItemMatch(line)
           e    == itemEnd(ls, i + 1)
           itemLines == <<m.content>>
                          \o [k \in 1..(e - (i + 1)) |-> trim(LineAt(ls, i + k))]
       IN IF trim(line) = <<>> THEN listLoop(ls, i + 1, baseIndent, items)
          ELSE IF ~m.ok THEN [items |-> items, nextIndex |-> i]
          ELSE IF m.indent < baseIndent THEN [items |-> items, nextIndex |-> i]
          ELSE listLoop(ls, e, baseIndent,
                        Append(items, [type |-> "text",
                                       content |-> join(itemLines, <<SP>>)]))

parseList(ls, startIndex) ==
  LET first      == LineAt(ls, startIndex)
      baseIndent == IF CharAt(first, 1) = BS THEN 1 + Run(first, 2, {"s"}) ELSE 0
      ordered    == orderedStart(first)
      r          == listLoop(ls, startIndex, baseIndent, <<>>)
  IN [node |-> [type |-> "list", ordered |-> ordered, items |-> r.items],
      nextIndex |-> r.nextIndex]

\* A variant of construct: the blank test looks at the line, not at its
\* trimmed form.
constructBlankUntrimmed(line) ==
  LET trimmed == trim(line)
  IN IF line = <<>> THEN "blank"
     ELSE IF startsWith(trimmed, <<"#">>) /\ headingMatch(trimmed).ok THEN "heading"
     ELSE IF startsWith(trimmed, Fence) THEN "code"
     ELSE IF dividerMatch(trimmed) THEN "divider"
     ELSE IF startsWith(trimmed, <<">">>) THEN "quote"
     ELSE IF includes(trimmed, "|") THEN "table"
     ELSE IF isListItem(line) THEN "list"
     ELSE "paragraph"

\* The branch the loop of parseMarkdown takes at a line: its chain of ifs, in
\* the order of the source.
construct(line) ==
  LET trimmed == trim(line)
  IN IF trimmed = <<>> THEN "blank"
     ELSE IF startsWith(trimmed, <<"#">>) /\ headingMatch(trimmed).ok THEN "heading"
     ELSE IF startsWith(trimmed, Fence) THEN "code"
     ELSE IF dividerMatch(trimmed) THEN "divider"
     ELSE IF startsWith(trimmed, <<">">>) THEN "quote"
     ELSE IF includes(trimmed, "|") THEN "table"
     ELSE IF isListItem(line) THEN "list"
     ELSE "paragraph"

\* The loop of the code branch: the index of the closing fence, or lines.length.
RECURSIVE codeEnd(_, _)
codeEnd(ls, i) ==
  IF i < Len(ls) /\ ~startsWith(trim(LineAt(ls, i)), Fence)
  THEN codeEnd(ls, i + 1)
  ELSE i

\* A variant of codeContent: every line of the content is trimmed.
codeContentTrimmed(ls, from, to) ==
  join([k \in 1..(to - from) |-> trim(ls[from + k])], <<NL>>)

\* codeLines.join("\n") for the lines from index `from` up to, not including, `to`.
codeContent(ls, from, to) == join(SubSeq(ls, from + 1, to), <<NL>>)

RECURSIVE quoteEnd(_, _)
quoteEnd(ls, i) ==
  IF i < Len(ls) /\ startsWith(trim(LineAt(ls, i)), <<">">>)
  THEN quoteEnd(ls, i + 1)
  ELSE i

RECURSIVE tableEnd(_, _)
tableEnd(ls, i) ==
  IF i < Len(ls) /\ includes(trim(LineAt(ls, i)), "|")
  THEN tableEnd(ls, i + 1)
  ELSE i

RECURSIVE paragraphEnd(_, _)
paragraphEnd(ls, i) ==
  IF i < Len(ls) /\ trim(LineAt(ls, i)) # <<>> /\ ~isBlockStart(LineAt(ls, i))
  THEN paragraphEnd(ls, i + 1)
  ELSE i

\* ------------------------------------------------------------------------
\* The language table and getLanguageCode (docx-blocks).

LANGUAGE_MAP == {
    <<<<"p", "l", "a", "i", "n", "t", "e", "x", "t">>, 0>>,
    <<<<"t", "e", "x", "t">>, 0>>,
    <<<<"a", "b", "a", "p">>, 1>>,
    <<<<"a", "d", "a">>, 2>>,
    <<<<"a", "p", "a", "c", "h", "e">>, 3>>,
    <<<<"a", "p", "e", "x">>, 4>>,
    <<<<"a", "p", "p", "l", "e", "s", "c", "r", "i", "p", "t">>, 5>>,
    <<<<"a", "q", "l">>, 6>>,
    <<<<"a", "r", "d", "u", "i", "n", "o">>, 7>>,
    <<<<"a", "r", "m", "a", "s", "m">>, 8>>,
    <<<<"a", "s", "c", "i", "i", "d", "o", "c">>, 9>>,
    <<<<"a", "s", "p", "n", "e", "t">>, 10>>,
    <<<<"a", "u", "t", "o", "h", "o", "t", "k", "e", "y">>, 11>>,
    <<<<"a", "u", "t", "o", "i", "t">>, 12>>,
    <<<<"b", "a", "s", "h">>, 13>>,
    <<<<"s", "h", "e", "l", "l">>, 13>>,
    <<<<"s", "h">>, 13>>,
    <<<<"b", "a", "s", "i", "c">>, 14>>,
    <<<<"b", "a", "t", "c", "h">>, 15>>,
    <<<<"b", "a", "t">>, 15>>,
    <<<<"c", "m", "d">>, 15>>,
    <<<<"b", "i", "s", "o", "n">>, 16>>,
    <<<<"b", "n", "f">>, 17>>,
    <<<<"b", "r", "a", "i", "n", "f", "u", "c", "k">>, 18>>,
    <<<<"c">>, 19>>,
    <<<<"c", "s">>, 20>>,
    <<<<"c", "s", "h", "a", "r", "p">>, 20>>,
    <<<<"c", "p", "p">>, 21>>,
    <<<<"c", "+", "+">>, 21>>,
    <<<<"c", "m", "a", "k", "e">>, 22>>,
    <<<<"c", "o", "f", "f", "e", "e", "s", "c", "r", "i", "p", "t">>, 23>>,
    <<<<"c", "o", "f", "f", "e", "e">>, 23>>,
    <<<<"c", "o", "s">>, 24>>,
    <<<<"c", "s", "s">>, 25>>,
    <<<<"d">>, 26>>,
    <<<<"d", "a", "r", "t">>, 27>>,
    <<<<"d", "i", "f", "f">>, 28>>,
    <<<<"d", "j", "a", "n", "g", "o">>, 29>>,
    <<<<"d", "n", "s">>, 30>>,
    <<<<"d", "o", "c", "k", "e", "r">>, 31>>,
    <<<<"d", "o", "c", "k", "e", "r", "f", "i", "l", "e">>, 31>>,
    <<<<"d", "o", "s">>, 32>>,
    <<<<"e", "l", "i", "x", "i", "r">>, 33>>,
    <<<<"e", "l", "m">>, 34>>,
    <<<<"e", "r", "b">>, 35>>,
    <<<<"e", "r", "l", "a", "n", "g">>, 36>>,
    <<<<"f", "o", "r", "t", "r", "a", "n">>, 37>>,
    <<<<"f", "s", "h", "a", "r", "p">>, 38>>,
    <<<<"f", "s">>, 38>>,
    <<<<"g", "h", "e", "r", "k", "i", "n">>, 39>>,
    <<<<"g", "o">>, 40>>,
    <<<<"g", "o", "l", "a", "n", "g">>, 40>>,
    <<<<"g", "r", "a", "d", "l", "e">>, 41>>,
    <<<<"g", "r", "a", "p", "h", "q", "l">>, 42>>,
    <<<<"g", "r", "o", "o", "v", "y">>, 43>>,
    <<<<"h", "a", "m", "l">>, 44>>,
    <<<<"h", "a", "n", "d", "l", "e", "b", "a", "r", "s">>, 45>>,
    <<<<"h", "b", "s">>, 45>>,
    <<<<"h", "a", "s", "k", "e", "l", "l">>, 46>>,
    <<<<"h", "a", "x", "e">>, 47>>,
    <<<<"h", "t", "m", "l">>, 48>>,
    <<<<"h", "t", "t", "p">>, 49>>,
    <<<<"i", "n", "i">>, 50>>,
    <<<<"t", "o", "m", "l">>, 50>>,
    <<<<"j", "a", "v", "a">>, 51>>,
    <<<<"j", "a", "v", "a", "s", "c", "r", "i", "p", "t">>, 52>>,
    <<<<"j", "s">>, 52>>,
    <<<<"j", "s", "o", "n">>, 53>>,
    <<<<"j", "u", "l", "i", "a">>, 54>>,
    <<<<"k", "o", "t", "l", "i", "n">>, 55>>,
    <<<<"k", "t">>, 55>>,
    <<<<"l", "a", "t", "e", "x">>, 56>>,
    <<<<"l", "e", "s", "s">>, 57>>,
    <<<<"l", "i", "s", "p">>, 58>>,
    <<<<"l", "i", "v", "e", "s", "c", "r", "i", "p", "t">>, 59>>,
    <<<<"l", "u", "a">>, 60>>,
    <<<<"m", "a", "k", "e", "f", "i", "l", "e">>, 61>>,
    <<<<"m", "a", "r", "k", "d", "o", "w", "n">>, 62>>,
    <<<<"m", "d">>, 62>>,
    <<<<"m", "a", "t", "l", "a", "b">>, 63>>,
    <<<<"n", "g", "i", "n", "x">>, 64>>,
    <<<<"n", "i", "m">>, 65>>,
    <<<<"n", "i", "x">>, 66>>,
    <<<<"o", "b", "j", "e", "c", "t", "i", "v", "e", "c">>, 67>>,
    <<<<"o", "b", "j", "c">>, 67>>,
    <<<<"o", "c", "a", "m", "l">>, 68>>,
    <<<<"p", "a", "s", "c", "a", "l">>, 69>>,
    <<<<"p", "e", "r", "l">>, 70>>,
    <<<<"p", "h", "p">>, 71>>,
    <<<<"p", "o", "w", "e", "r", "s", "h", "e", "l", "l">>, 72>>,
    <<<<"p", "s">>, 72>>,
    <<<<"p", "s", "1">>, 72>>,
    <<<<"p", "r", "o", "l", "o", "g">>, 73>>,
    <<<<"p", "r", "o", "t", "o", "b", "u", "f">>, 74>>,
    <<<<"p", "u", "p", "p", "e", "t">>, 75>>,
    <<<<"p", "y", "t", "h", "o", "n">>, 76>>,
    <<<<"p", "y">>, 76>>,
    <<<<"r">>, 77>>,
    <<<<"r", "u", "b", "y">>, 78>>,
    <<<<"r", "b">>, 78>>,
    <<<<"r", "u", "s", "t">>, 79>>,
    <<<<"s", "a", "s", "s">>, 80>>,
    <<<<"s", "c", "a", "l", "a">>, 81>>,
    <<<<"s", "c", "h", "e", "m", "e">>, 82>>,
    <<<<"s", "c", "s", "s">>, 83>>,
    <<<<"s", "m", "a", "l", "l", "t", "a", "l", "k">>, 84>>,
    <<<<"s", "q", "l">>, 85>>,
    <<<<"s", "t", "y", "l", "u", "s">>, 86>>,
    <<<<"s", "w", "i", "f", "t">>, 87>>,
    <<<<"t", "c", "l">>, 88>>,
    <<<<"t", "e", "x">>, 89>>,
    <<<<"t", "y", "p", "e", "s", "c", "r", "i", "p", "t">>, 90>>,
    <<<<"t", "s">>, 90>>,
    <<<<"v", "b", "n", "e", "t">>, 91>>,
    <<<<"v", "b">>, 91>>,
    <<<<"v", "e", "r", "i", "l", "o", "g">>, 92>>,
    <<<<"v", "h", "d", "l">>, 93>>,
    <<<<"v", "i", "m">>, 94>>,
    <<<<"x", "m", "l">>, 95>>,
    <<<<"y", "a", "m", "l">>, 96>>,
    <<<<"y", "m", "l">>, 96>>
  }

Upper == <<"A", "B", "C", "D", "E", "F", "G", "H", "I", "J", "K", "L", "M",
           "N", "O", "P", "Q", "R", "S", "T", "U", "V", "W", "X", "Y", "Z">>
Lower == <<"a", "b", "c", "d", "e", "f", "g", "h", "i", "j", "k", "l", "m",
           "n", "o", "p", "q", "r", "s", "t", "u", "v", "w", "x", "y", "z">>

toLowerCase(s) ==
  [k \in 1..Len(s) |->
     IF \E u \in 1..26 : Upper[u] = s[k]
     THEN Lower[CHOOSE u \in 1..26 : Upper[u] = s[k]]
     ELSE s[k]]

toUpperCase(s) ==
  [k \in 1..Len(s) |->
     IF \E u \in 1..26 : Lower[u] = s[k]
     THEN Upper[CHOOSE u \in 1..26 : Lower[u] = s[k]]
     ELSE s[k]]

\* A value of the language: a number, or something that is not one.
Num(n) == [type |-> "number", num |-> n]
NotNum(t) == [type |-> t, num |-> 0]

LanguageKeys == {e[1] : e \in LANGUAGE_MAP}

\* LANGUAGE_MAP[key].  LANGUAGE_MAP is an object literal, so a key it does not
\* hold is looked up in Object.prototype; of that object's property names only
\* "constructor" (a function) and "__proto__" (an object) are in lower case.
languageLookup(key) ==
  IF key \in LanguageKeys
  THEN Defined(Num((CHOOSE e \in LANGUAGE_MAP : e[1] = key)[2]))
  ELSE IF key = <<"c", "o", "n", "s", "t", "r", "u", "c", "t", "o", "r">>
  THEN Defined(NotNum("function"))
  ELSE IF key = <<"_", "_", "p", "r", "o", "t", "o", "_", "_">>
  THEN Defined(NotNum("object"))
  ELSE Undefined

\* lang is Undefined or Defined(string).
getLanguageCode(lang) ==
  IF lang = Undefined \/ lang[1] = <<>> THEN Num(0)
  ELSE LET v == languageLookup(toLowerCase(lang[1]))
       IN IF v = Undefined THEN Num(0) ELSE v[1]

\* ------------------------------------------------------------------------
\* Inline styling.

\* As Run, for the characters that are not in C: a greedy [^...]* or [^...]+.
RECURSIVE RunNot(_, _, _)
RunNot(s, k, C) ==
  IF k <= Len(s) /\ s[k] \notin C THEN 1 + RunNot(s, k + 1, C) ELSE 0

\* /\\*\\*([^\\*]+)\\*\\*/ tried at position p: any number of backslashes, one
\* or more characters other than backslash and "*" (group 1), any number of
\* backslashes.
boldAt(text, p) ==
  LET b == Run(text, p, {BS})
      g == RunNot(text, p + b, {BS, "*"})
      t == Run(text, p + b + g, {BS})
  IN [ok |-> g >= 1, group |-> SubSeq(text, p + b, p + b + g - 1),
      end |-> p + b + g + t - 1]

\* The first position from `from` (1-based) at which the pattern matches, or 0.
RECURSIVE boldFind(_, _)
boldFind(text, from) ==
  IF from > Len(text) THEN 0
  ELSE IF boldAt(text, from).ok THEN from
  ELSE boldFind(text, from + 1)

\* The exec loop of parseTextWithStyles, from lastIndex (0-based).
RECURSIVE boldLoop(_, _)
boldLoop(text, lastIndex) ==
  LET p == boldFind(text, lastIndex + 1)
      m == boldAt(text, p)
  IN IF p = 0
     THEN IF lastIndex < Len(text)
          THEN <<[text_run |-> [content |-> sliceFrom(text, lastIndex)]]>>
          ELSE <<>>
     ELSE (IF p - 1 > lastIndex
           THEN <<[text_run |-> [content |-> SubSeq(text, lastIndex + 1, p - 1)]]>>
           ELSE <<>>)
          \o <<[text_run |-> [content |-> m.group, style |-> [bold |-> TRUE]]]>>
          \o boldLoop(text, m.end)

parseTextWithStyles(text) ==
  LET elements == boldLoop(text, 0)
  IN IF Len(elements) = 0 THEN <<[text_run |-> [content |-> text]]>> ELSE elements

\* /\[([^\]]+)\]\(([^)]+)\)/ tried at position p.
linkAt(text, p) ==
  LET a == RunNot(text, p + 1, {"]"})
      q == p + 1 + a
      u == RunNot(text, q + 2, {")"})
      r == q + 2 + u
  IN [ok |-> CharAt(text, p) = "[" /\ a >= 1 /\ CharAt(text, q) = "]"
               /\ CharAt(text, q + 1) = "(" /\ u >= 1 /\ CharAt(text, r) = ")",
      content |-> SubSeq(text, p + 1, q - 1),
      url |-> SubSeq(text, q + 2, r - 1),
      end |-> r]

RECURSIVE linkFind(_, _)
linkFind(text, from) ==
  IF from > Len(text) THEN 0
  ELSE IF linkAt(text, from).ok THEN from
  ELSE linkFind(text, from + 1)

\* The exec loop of parseInlineMarkdown, from lastIndex (0-based).
RECURSIVE linkLoop(_, _)
linkLoop(text, lastIndex) ==
  LET p == linkFind(text, lastIndex + 1)
      m == linkAt(text, p)
  IN IF p = 0
     THEN IF lastIndex < Len(text)
          THEN parseTextWithStyles(sliceFrom(text, lastIndex))
          ELSE <<>>
     ELSE (IF p - 1 > lastIndex
           THEN parseTextWithStyles(SubSeq(text, lastIndex + 1, p - 1))
           ELSE <<>>)
          \o <<[link |-> [url |-> m.url, content |-> m.content]]>>
          \o linkLoop(text, m.end)

\* A variant of parseInlineMarkdown: no element is pushed when the loop
\* produced none.
parseInlineMarkdownNoFallback(text) == linkLoop(text, 0)

parseInlineMarkdown(text) ==
  LET elements == linkLoop(text, 0)
  IN IF Len(elements) = 0 THEN <<[text_run |-> [content |-> text]]>> ELSE elements

\* ------------------------------------------------------------------------
\* Nodes to blocks.

\* A variant of createHeadingBlock: levels 4 to 6 get the heading types 6 to 8
\* of the format, which the insert API refuses, in place of a bold Text block.
createHeadingBlockNative(level, content) ==
  LET elements == parseInlineMarkdown(content)
  IN IF level = 1 THEN [block_type |-> 3, heading1 |-> [elements |-> elements]]
     ELSE IF level = 2 THEN [block_type |-> 4, heading2 |-> [elements |-> elements]]
     ELSE IF level = 3 THEN [block_type |-> 5, heading3 |-> [elements |-> elements]]
     ELSE [block_type |-> level + 2, heading |-> [elements |-> elements]]

createHeadingBlock(level, content) ==
  LET elements == parseInlineMarkdown(content)
  IN IF level = 1 THEN [block_type |-> 3, heading1 |-> [elements |-> elements]]
     ELSE IF level = 2 THEN [block_type |-> 4, heading2 |-> [elements |-> elements]]
     ELSE IF level = 3 THEN [block_type |-> 5, heading3 |-> [elements |-> elements]]
     ELSE [block_type |-> 2,
           text |-> [elements |->
                       <<[text_run |-> [content |-> content,
                                        style |-> [bold |-> TRUE]]]>>]]

createTextBlock(content) ==
  [block_type |-> 2, text |-> [elements |-> parseInlineMarkdown(content)]]

\* A variant of createCodeBlock: the style is always built.
createCodeBlockAlways(content, language) ==
  [block_type |-> 14,
   code |-> [elements |-> <<[text_run |-> [content |-> content]]>>,
             style |-> Defined([language |-> getLanguageCode(language)])]]

\* language is Undefined or Defined(string); so is the style of the result.
createCodeBlock(content, language) ==
  [block_type |-> 14,
   code |-> [elements |-> <<[text_run |-> [content |-> content]]>>,
             style |-> IF language # Undefined /\ language[1] # <<>>
                       THEN Defined([language |-> getLanguageCode(language)])
                       ELSE Undefined]]

createQuoteBlock(content) ==
  [block_type |-> 15, quote |-> [elements |-> parseInlineMarkdown(content)]]

createDividerBlock == [block_type |-> 22, divider |-> <<>>]

createListBlock(items, ordered) ==
  LET elements == [k \in 1..Len(items) |->
                     [text_run |-> [content |-> items[k].content]]]
  IN IF ordered
     THEN [block_type |-> 13, ordered |-> [elements |-> elements]]
     ELSE [block_type |-> 12, bullet |-> [elements |-> elements]]

Max(S) == CHOOSE x \in S : \A y \in S : y <= x

\* A variant of createTableBlock: no rule is put after the header row.
createTableBlockNoHeaderRule(rows) ==
  IF Len(rows) = 0 THEN Undefined
  ELSE
    LET nCols == Max({Len(rows[r]) : r \in 1..Len(rows)})
        colWidths == [j \in 1..nCols |->
                        Max({0} \cup {Len(rows[r][j]) :
                                        r \in {x \in 1..Len(rows) : j <= Len(rows[x])}})]
        separator == join([j \in 1..nCols |-> repeat(<<"-">>, colWidths[j] + 2)],
                          <<"+">>)
        rule == <<"+">> \o separator \o <<"+">>
        rowLine(r) == <<"|">>
                        \o join([j \in 1..Len(rows[r]) |->
                                   <<SP>> \o padEnd(rows[r][j], colWidths[j]) \o <<SP>>],
                                <<"|">>)
                        \o <<"|">>
        lines == <<rule>> \o [r \in 1..Len(rows) |-> rowLine(r)] \o <<rule>>
    IN Defined([block_type |-> 14,
                code |-> [elements |-> <<[text_run |-> [content |-> join(lines, <<NL>>)]]>>,
                          style |-> Defined([language |-> Num(0)])]])

\* Undefined stands for the null createTableBlock returns.
createTableBlock(rows) ==
  IF Len(rows) = 0 THEN Undefined
  ELSE
    LET nCols == Max({Len(rows[r]) : r \in 1..Len(rows)})
        colWidths == [j \in 1..nCols |->
                        Max({0} \cup {Len(rows[r][j]) :
                                        r \in {x \in 1..Len(rows) : j <= Len(rows[x])}})]
        separator == join([j \in 1..nCols |-> repeat(<<"-">>, colWidths[j] + 2)],
                          <<"+">>)
        rule == <<"+">> \o separator \o <<"+">>
        rowLine(r) == <<"|">>
                        \o join([j \in 1..Len(rows[r]) |->
                                   <<SP>> \o padEnd(rows[r][j], colWidths[j]) \o <<SP>>],
                                <<"|">>)
                        \o <<"|">>
        lines == <<rule, rowLine(1), rule>>
                   \o [r \in 1..(Len(rows) - 1) |-> rowLine(r + 1)]
                   \o <<rule>>
    IN Defined([block_type |-> 14,
                code |-> [elements |-> <<[text_run |-> [content |-> join(lines, <<NL>>)]]>>,
                          style |-> Defined([language |-> Num(0)])]])

\* Undefined or Defined(block).
nodeToBlock(node) ==
  CASE node.type = "heading"   -> Defined(createHeadingBlock(node.level, node.content))
    [] node.type = "paragraph" -> Defined(createTextBlock(node.content))
    [] node.type = "code"      -> Defined(createCodeBlock(node.content, node.language))
    [] node.type = "quote"     -> Defined(createQuoteBlock(node.content))
    [] node.type = "divider"   -> Defined(createDividerBlock)
    [] node.type = "list"      -> Defined(createListBlock(node.items, node.ordered))
    [] node.type = "table"     -> createTableBlock(node.rows)
    [] OTHER                   -> Undefined

\* A variant of nodesToBlocks: each block is put before the earlier ones.
RECURSIVE nodesToBlocksPrepend(_)
nodesToBlocksPrepend(ns) ==
  IF ns = <<>> THEN <<>>
  ELSE nodesToBlocksPrepend(Tail(ns)) \o nodeToBlock(Head(ns))

RECURSIVE nodesToBlocks(_)
nodesToBlocks(ns) ==
  IF ns = <<>> THEN <<>> ELSE nodeToBlock(Head(ns)) \o nodesToBlocks(Tail(ns))

\* ------------------------------------------------------------------------
\* preprocessMarkdown: six global replacements, in the order of the source.

\* s.replace(/literal/g, to) for a pattern of plain characters.
RECURSIVE replaceAll(_, _, _)
replaceAll(s, pat, to) ==
  IF s = <<>> THEN <<>>
  ELSE IF startsWith(s, pat) THEN to \o replaceAll(sliceFrom(s, Len(pat)), pat, to)
  ELSE <<Head(s)>> \o replaceAll(Tail(s), pat, to)

\* .replace(/\\n\\n\\n+/g, "\n\n") : backslash n, backslash n, backslash and
\* one or more n.
RECURSIVE collapseBlank(_)
collapseBlank(s) ==
  IF s = <<>> THEN <<>>
  ELSE IF startsWith(s, <<BS, "n", BS, "n", BS, "n">>)
  THEN <<NL, NL>> \o collapseBlank(sliceFrom(s, 5 + Run(s, 6, {"n"})))
  ELSE <<Head(s)>> \o collapseBlank(Tail(s))

\* .replace(/^(#{1,6}.*)$/gm, "$1\n") : a line feed after every line that
\* begins with "#".  atStart says that s begins a line.
RECURSIVE headingBreak(_, _)
headingBreak(s, atStart) ==
  IF s = <<>> THEN <<>>
  ELSE IF atStart /\ Head(s) = "#"
  THEN LET n == RunNot(s, 1, LineTerminators)
       IN SubSeq(s, 1, n) \o <<NL>> \o headingBreak(sliceFrom(s, n), FALSE)
  ELSE <<Head(s)>> \o headingBreak(Tail(s), Head(s) \in LineTerminators)

\* .replace(/([^\\n])```/g, "$1\n```") : the class excludes the backslash and
\* the letter n.
RECURSIVE fenceBefore(_)
fenceBefore(s) ==
  IF s = <<>> THEN <<>>
  ELSE IF Head(s) \notin {BS, "n"} /\ startsWith(Tail(s), Fence)
  THEN <<Head(s), NL>> \o Fence \o fenceBefore(sliceFrom(s, 4))
  ELSE <<Head(s)>> \o fenceBefore(Tail(s))

\* .replace(/```([^\\n])/g, "```\n$1")
RECURSIVE fenceAfter(_)
fenceAfter(s) ==
  IF s = <<>> THEN <<>>
  ELSE IF startsWith(s, Fence) /\ Len(s) >= 4 /\ s[4] \notin {BS, "n"}
  THEN Fence \o <<NL, s[4]>> \o fenceAfter(sliceFrom(s, 4))
  ELSE <<Head(s)>> \o fenceAfter(Tail(s))

preprocessMarkdown(markdown) ==
  fenceAfter(
    fenceBefore(
      headingBreak(
        collapseBlank(
          replaceAll(replaceAll(markdown, <<BS, "r", BS, "n">>, <<NL>>),
                     <<BS, "r">>, <<NL>>)),
        TRUE)))

\* ------------------------------------------------------------------------
\* The inputs of a run.

\* The longest input made of every combination of the characters of Alphabet,
\* the most lines of an input made of SampleLines, and the most successive
\* applications of preprocessMarkdown.
MaxLen == 4
MaxLines == 3
MaxPreprocess == 2

Alphabet == {"#", BS, "s", SP, NL, "-", "|", ">"}

CharInputs == UNION {[1..n -> Alphabet] : n \in 0..MaxLen}

SampleLines ==
  { <<>>,
    <<"x">>,
    <<SP, "y", SP>>,
    Fence,
    Fence \o <<"j", "s">>,
    <<SP>> \o Fence,
    <<"#", BS, "s", "h">>,
    <<BS, "-", BS, "s", "i">>,
    <<">", "q">>,
    <<"a", "|", "b">>,
    <<BS>> }

LineInputs ==
  {join(ls, <<NL>>) : ls \in UNION {[1..n -> SampleLines] : n \in 1..MaxLines}}

HeadingTexts ==
  { <<"X">>,
    <<"[", "a", "]", "(", "u", ")">>,
    <<"*", "*", "b", "*", "*">> }

\* Heading lines of every level, the marker followed by a space (Markdown) or
\* by backslash-s (what the pattern of the source accepts).
HeadingDocs ==
  {repeat(<<"#">>, k) \o sep \o x :
     k \in 1..7, sep \in {<<SP>>, <<BS, "s">>}, x \in HeadingTexts}

Constructor == <<"c", "o", "n", "s", "t", "r", "u", "c", "t", "o", "r">>

FenceTags ==
  { <<"j", "s">>, <<"J", "S">>, <<"j", "a", "v", "a", "s", "c", "r", "i", "p", "t">>,
    <<"p", "y">>, <<"z", "z", "z", "z", "z">>, Constructor, <<SP, "t", "s">> }

FenceDocs == {Fence \o t \o <<NL, "x">> : t \in FenceTags}

OtherDocs ==
  { <<BS, BS, "d", BS, ".", BS, "s", "o">>,
    <<"a", CR, NL, "b">>,
    <<CR>>,
    <<"a", NL, NL, NL, NL, "b">>,
    <<NL, NL, NL, NL>>,
    <<BS, "r", BS, "n">>,
    <<BS, "n", BS, "n", BS, "n", "n">>,
    <<"x", BT, BT, BT, "y">>,
    <<"-", "-", "-">>,
    <<"-", SP, "x">>,
    <<"1", ".", SP, "x">>,
    <<SP, SP, SP, NL, NL, NL>>,
    <<"a", "|", "b", NL, "-", "|", "-", NL, "c", "|", "d", "d">>,
    <<">", "[", "a", "]", "(", "u", ")", NL, ">", "*", "*", "b", "*", "*">>,
    <<BS, "-", BS, "s", "i", CR, "j">> }

\* Tables: the three-line example of the documentation, a header with an
\* alignment row only, one line, lines of pipes only, rows of unequal length,
\* a table between two paragraphs and a header with its alignment row there.
TableExample ==
  <<"|", SP, "A", SP, "|", SP, "B", "B", SP, "|", NL,
    "|", "-", "-", "-", "|", "-", "-", "-", "-", "|", NL,
    "|", SP, "1", SP, "|", SP, "2", "2", SP, "|">>

TableDocs ==
  { TableExample,
    <<"|", "A", "|", "B", "|", NL, "|", "-", "-", "-", "|", "-", "-", "-", "|">>,
    <<"|", "A", "|", "B", "|">>,
    <<"|", NL, "|", "|">>,
    <<"a", "|", "b", NL, "c", NL, "d", "|", "e", "|", "f", "f", "f">>,
    <<"a", "|", "b", "b", NL, "c", "c", "c", "|", "d", NL, "e", "|", "f">>,
    <<"x", NL, NL, "a", "|", "b", NL, "c", "|", "d", NL, NL, "y">>,
    <<"x", NL, "a", "|", "b", NL, ":", "-", "|", "-", ":", NL, NL, "y">> }

\* Lists of up to MaxLines items, each item a line of its own: with the
\* markers of Markdown ("- x", "* x", "+ x", "1. x") and with the markers the
\* patterns of the source accept (backslash, "-", backslash-s and the text;
\* backslash, backslash-d, backslash, ".", backslash-s and the text).
ItemTexts ==
  { <<"o", "n", "e">>,
    <<"*", "*", "b", "*", "*">>,
    <<"[", "t", "]", "(", "u", ")">> }

Digit(k) == <<"1", "2", "3", "4", "5", "6", "7", "8", "9">>[k]

ItemLine(marker, k, x) ==
  CASE marker = "digit"     -> <<Digit(k), ".", SP>> \o x
    [] marker = "source"    -> <<BS, "-", BS, "s">> \o x
    [] marker = "sourceNum" -> <<BS, BS, "d", BS, ".", BS, "s">> \o x
    [] OTHER                -> <<marker, SP>> \o x

ListDoc(marker, items) ==
  join([k \in 1..Len(items) |-> ItemLine(marker, k, items[k])], <<NL>>)

ItemLists == UNION {[1..n -> ItemTexts] : n \in 1..MaxLines}

ListDocs ==
  {ListDoc(marker, items) :
     marker \in {"-", "*", "+", "digit", "source", "sourceNum"},
     items \in ItemLists}

\* A quote of two lines with a link in the first.
QuoteExample ==
  <<">", SP, "p", "a", "r", "t", SP, "[", "o", "n", "e", "]",
    "(", "h", "t", "t", "p", ":", "/", "/", "x", ")", NL,
    ">", SP, "p", "a", "r", "t", SP, "t", "w", "o">>

QuoteDocs ==
  { QuoteExample,
    <<">", "a", NL, SP, ">", SP, "b", SP, NL, "c">>,
    <<">", NL, ">", ">", "x">>,
    <<">", "*", "t", "*">>,
    <<">", BT, "t", BT>> }

\* Lines that several rules match, and the three dividers of Markdown.
PrecedenceDocs ==
  { <<">", "a", "|", "b">>,
    <<"-", SP, "a", "|", "b">>,
    <<BS, "-", BS, "s", "a", "|", "b">>,
    <<"#", BS, "s", ">", "|">>,
    <<">", SP>> \o Fence,
    Fence \o <<"|", ">">>,
    <<BS, "s", ">", "|">>,
    <<"*", "*", "*">>,
    <<"_", "_", "_">>,
    <<"-", "-", "-", BS, "s">>,
    <<"_", "_", "_", BS>> }

\* Paragraphs with and without inline markup.
InlineDocs ==
  { <<"p", "l", "a", "i", "n">>,
    <<"a", "*", "*", "b", "*", "*", "c">>,
    <<"s", "e", "e", SP, "[", "l", "]", "(", "u", ")", SP, "e", "n", "d">>,
    <<"[", "l", "]", "(", "u", ")">>,
    <<"*", "*", "b", "*", "*">>,
    <<"e", BS, BS, "f", BS, "g">>,
    <<"[", "l", "]", "(", ")">> }

Inputs ==
  CharInputs \cup LineInputs \cup HeadingDocs \cup FenceDocs \cup OtherDocs
    \cup TableDocs \cup ListDocs \cup QuoteDocs \cup PrecedenceDocs
    \cup InlineDocs

\* The arguments of getLanguageCode: undefined, the empty string, every key of
\* the table in lower case, in upper case and capitalised, and unknown tags.
Capitalize(s) == IF s = <<>> THEN s ELSE toUpperCase(<<Head(s)>>) \o Tail(s)

TagInputs ==
  {Undefined, Defined(<<>>)}
    \cup {Defined(k) : k \in LanguageKeys}
    \cup {Defined(toUpperCase(k)) : k \in LanguageKeys}
    \cup {Defined(Capitalize(k)) : k \in LanguageKeys}
    \cup {Defined(t) : t \in FenceTags}
    \cup {Defined(<<"_", "_", "p", "r", "o", "t", "o", "_", "_">>),
          Defined(toUpperCase(Constructor))}

\* ------------------------------------------------------------------------
\* The state machine.
\*
\*   pc     "start": a Markdown string is at hand; "scan": in the loop of
\*          parseMarkdown; "done": convertMarkdownToBlocks has returned;
\*          "lang": getLanguageCode is called; "langdone": it has returned
\*   raw    the string the run began with
\*   text   the string after npre applications of preprocessMarkdown
\*   prev   the string before the last application
\*   lines, i, nodes   the locals of parseMarkdown (i is 0-based)
\*   iters  the iterations of the loop of parseMarkdown so far
\*   blocks the result of convertMarkdownToBlocks
\*   tag    the argument of getLanguageCode, code its result

\*
\* For a call of the calendar actions (pc "delete", "list" and on):
\*   params     the params argument
\*   calendars  what client.calendar.v4.calendar.list resolves to
\*   calls      the calls made on the client so far, in order
\*   calendarId the local of listCalendarEvents
\*   result     what the call resolved to, error what it rejected with

VARIABLES pc, raw, text, prev, npre, lines, i, nodes, iters, blocks, tag, code,
          params, calendars, calls, calendarId, result, error

\* The document tool (docx.ts): the function that was called, the options of
\* convertMarkdown, the markdown, whether the account has credentials, the
\* blocks of the remote document, and the locals that live across an await:
\* what clearDocumentContent returned and what convertMarkdown returned.
VARIABLES entry, options, markdown, configured, document, deleted, converted

\* What the client answered to the calls of the document tool, in order.
VARIABLES responses

\* The user tokens (client.ts): the entry of the account in userTokenCache,
\* Date.now() in units of ten minutes, the number of tokens the token endpoint
\* has issued, and the calls of getUserAccessToken: where each stands, the
\* entry it read, and what the endpoint answered to its request.
VARIABLES userTokenCache, now, issued, getCalls

\* withFeishuToolClient: its params with the account they resolve to, and the
\* invocations of run, in order.
VARIABLES tool, runs

markdownVars == <<raw, text, prev, npre, lines, i, nodes, iters, blocks, tag, code>>

calendarVars == <<params, calendars, calls, calendarId, result, error>>

docVars == <<entry, options, markdown, configured, document, deleted, converted>>

authVars == <<userTokenCache, now, issued, getCalls, tool, runs>>

vars == <<pc, raw, text, prev, npre, lines, i, nodes, iters, blocks, tag, code,
          params, calendars, calls, calendarId, result, error,
          entry, options, markdown, configured, document, deleted, converted,
          responses, userTokenCache, now, issued, getCalls, tool, runs>>

Callers == {1, 2}

Idle ==
  [pc |-> "idle", cache |-> Undefined, readAt |-> 0, response |-> Undefined,
   value |-> Undefined]

NoAuthRun ==
  /\ userTokenCache = Undefined /\ now = 0 /\ issued = 0
  /\ getCalls = [c \in Callers |-> Idle]
  /\ tool = Undefined /\ runs = <<>>

NoCalendarCall ==
  /\ params = Undefined /\ calendars = Undefined /\ calls = <<>>
  /\ calendarId = Undefined /\ result = Undefined /\ error = Undefined

NoDocCall ==
  /\ entry = Undefined /\ options = Undefined /\ markdown = Undefined
  /\ configured = Undefined /\ document = Undefined
  /\ deleted = Undefined /\ converted = Undefined
  /\ responses = <<>>

NoMarkdownRun ==
  /\ raw = <<>> /\ text = <<>> /\ prev = <<>> /\ npre = 0
  /\ lines = <<>> /\ i = 0 /\ nodes = <<>> /\ iters = 0
  /\ blocks = <<>>
  /\ tag = Undefined /\ code = Undefined

InitMarkdown ==
  /\ pc = "start"
  /\ raw \in Inputs
  /\ text = raw
  /\ prev = raw
  /\ npre = 0
  /\ lines = <<>> /\ i = 0 /\ nodes = <<>> /\ iters = 0
  /\ blocks = <<>>
  /\ tag = Undefined /\ code = Undefined
  /\ NoCalendarCall
  /\ NoDocCall
  /\ NoAuthRun

InitLanguage ==
  /\ pc = "lang"
  /\ tag \in TagInputs
  /\ code = Undefined
  /\ raw = <<>> /\ text = <<>> /\ prev = <<>> /\ npre = 0
  /\ lines = <<>> /\ i = 0 /\ nodes = <<>> /\ iters = 0
  /\ blocks = <<>>
  /\ NoCalendarCall
  /\ NoDocCall
  /\ NoAuthRun

\* The arguments of a call of deleteCalendarEvent or listCalendarEvents, and
\* what the client answers.  An identifier is absent, empty, blank, plain or
\* padded with spaces; confirm is absent, false or true; a date-time string is
\* absent, not in the ISO format, or an instant given in milliseconds.
IdInputs ==
  { Undefined, Defined(<<>>), Defined(<<SP>>),
    Defined(<<"c", "1">>), Defined(<<SP, "c", "1", SP>>) }

DeleteParams ==
  [calendar_id : IdInputs, event_id : IdInputs,
   confirm : {Undefined, Defined(FALSE), Defined(TRUE)}]

TimeInputs ==
  { Undefined, Defined([iso |-> FALSE, ms |-> 0]) }
    \cup {Defined([iso |-> TRUE, ms |-> t]) : t \in {0, 500, 1000}}

ListParams ==
  [calendar_id : IdInputs, start_time : TimeInputs, end_time : TimeInputs,
   timezone : {Undefined, Defined(<<SP>>), Defined(<<"U", "T", "C">>)},
   page_size : {Undefined, Defined(10)},
   page_token : {Undefined}]

CalendarItem(a, b, c) == [calendar_id |-> a, calendarId |-> b, id |-> c]

CalendarListResponses ==
  { Undefined,
    Defined(<<>>),
    Defined(<<CalendarItem(Defined(<<"p", "r", "i">>), Undefined, Undefined)>>),
    Defined(<<CalendarItem(Undefined, Defined(<<"c", "2">>), Defined(<<"c", "3">>)),
              CalendarItem(Defined(<<"c", "4">>), Undefined, Undefined)>>),
    Defined(<<CalendarItem(Undefined, Undefined, Defined(<<"c", "3">>))>>),
    Defined(<<CalendarItem(Defined(<<>>), Undefined, Defined(<<"c", "3">>))>>),
    Defined(<<CalendarItem(Undefined, Undefined, Undefined)>>) }

RawEvent(a, b) == [event_id |-> a, eventId |-> b, summary |-> <<"D", "e", "m", "o">>]

EventListResponses ==
  { Undefined,
    Defined([items |-> Undefined, page_token |-> Undefined, has_more |-> Undefined]),
    Defined([items |-> Defined(<<RawEvent(Defined(<<"e", "1">>), Undefined),
                                 RawEvent(Undefined, Defined(<<"e", "2">>))>>),
             page_token |-> Defined(<<>>), has_more |-> Defined(FALSE)]) }

InitCalendar ==
  /\ pc \in {"delete", "list"}
  /\ params \in (IF pc = "delete" THEN DeleteParams ELSE ListParams)
  /\ calendars \in (IF pc = "list" THEN CalendarListResponses ELSE {Undefined})
  /\ calls = <<>>
  /\ calendarId = Undefined /\ result = Undefined /\ error = Undefined
  /\ NoMarkdownRun
  /\ NoDocCall
  /\ NoAuthRun

\* preprocessMarkdown(text)
Preprocess ==
  /\ pc = "start"
  /\ npre < MaxPreprocess
  /\ text' = preprocessMarkdown(text)
  /\ prev' = text
  /\ npre' = npre + 1
  /\ UNCHANGED <<pc, raw, lines, i, nodes, iters, blocks, tag, code>>
  /\ UNCHANGED <<calendarVars, docVars, responses, authVars>>

\* convertMarkdownToBlocks(text), up to the loop of parseMarkdown: called with
\* the string as it is, or by convertMarkdownLocal with the preprocessed one.
ParseStart ==
  /\ pc = "start"
  /\ npre <= 1
  /\ lines' = split(text, NL)
  /\ i' = 0
  /\ nodes' = <<>>
  /\ iters' = 0
  /\ pc' = "scan"
  /\ UNCHANGED <<raw, text, prev, npre, blocks, tag, code>>
  /\ UNCHANGED <<calendarVars, docVars, responses, authVars>>

\* One iteration of the loop of parseMarkdown is enabled.  An iteration that
\* leaves i where it was repeats for ever; the model follows the loop for one
\* iteration more than there are lines, which no run that advances needs.
InLoop(kind) ==
  /\ pc = "scan"
  /\ i < Len(lines)
  /\ iters <= Len(lines)
  /\ construct(LineAt(lines, i)) = kind

Iterate(nextIndex, nextNodes) ==
  /\ i' = nextIndex
  /\ nodes' = nextNodes
  /\ iters' = iters + 1
  /\ UNCHANGED <<pc, raw, text, prev, npre, lines, blocks, tag, code>>
  /\ UNCHANGED <<calendarVars, docVars, responses, authVars>>

SkipBlank ==
  /\ InLoop("blank")
  /\ Iterate(i + 1, nodes)

HeadingStep ==
  /\ InLoop("heading")
  /\ LET match == headingMatch(trim(LineAt(lines, i)))
     IN Iterate(i + 1,
                Append(nodes, [type |-> "heading", level |-> match.level,
                               content |-> trim(match.content)]))

CodeStep ==
  /\ InLoop("code")
  /\ LET lang == trim(sliceFrom(trim(LineAt(lines, i)), 3))
         end  == codeEnd(lines, i + 1)
     IN Iterate(end + 1,
                Append(nodes,
                       [type |-> "code",
                        language |-> IF lang = <<>> THEN Undefined ELSE Defined(lang),
                        content |-> codeContent(lines, i + 1, end)]))

DividerStep ==
  /\ InLoop("divider")
  /\ Iterate(i + 1, Append(nodes, [type |-> "divider"]))

QuoteStep ==
  /\ InLoop("quote")
  /\ LET end == quoteEnd(lines, i)
         quoteLines == [k \in 1..(end - i) |->
                          trim(sliceFrom(trim(LineAt(lines, i + k - 1)), 1))]
     IN Iterate(end, Append(nodes, [type |-> "quote",
                                    content |-> join(quoteLines, <<NL>>)]))

TableStep ==
  /\ InLoop("table")
  /\ LET end   == tableEnd(lines, i)
         table == parseTable(SubSeq(lines, i + 1, end))
     IN Iterate(end, nodes \o table)

ListStep ==
  /\ InLoop("list")
  /\ LET listResult == parseList(lines, i)
     IN Iterate(listResult.nextIndex, Append(nodes, listResult.node))

ParagraphStep ==
  /\ InLoop("paragraph")
  /\ LET end == paragraphEnd(lines, i)
         paraLines == SubSeq(lines, i + 1, end)
     IN Iterate(end,
                IF Len(paraLines) > 0
                THEN Append(nodes, [type |-> "paragraph",
                                    content |-> trim(join(paraLines, <<SP>>))])
                ELSE nodes)

\* The loop ends; parseMarkdown returns nodes and convertMarkdownToBlocks
\* returns nodesToBlocks(nodes).
Return ==
  /\ pc = "scan"
  /\ i >= Len(lines)
  /\ blocks' = nodesToBlocks(nodes)
  /\ pc' = "done"
  /\ UNCHANGED <<raw, text, prev, npre, lines, i, nodes, iters, tag, code>>
  /\ UNCHANGED <<calendarVars, docVars, responses, authVars>>

GetLanguageCode ==
  /\ pc = "lang"
  /\ code' = Defined(getLanguageCode(tag))
  /\ pc' = "langdone"
  /\ UNCHANGED <<raw, text, prev, npre, lines, i, nodes, iters, blocks, tag>>
  /\ UNCHANGED <<calendarVars, docVars, responses, authVars>>

\* ------------------------------------------------------------------------
\* The calendar actions.

FEISHU_CALENDAR_DEFAULT_TIMEZONE ==
  <<"A", "s", "i", "a", "/", "S", "h", "a", "n", "g", "h", "a", "i">>

\* a ?? b for optional values.
Coalesce(a, b) == IF a # Undefined THEN a ELSE b

resolveCalendarTimezone(timezone) ==
  IF timezone # Undefined /\ trim(timezone[1]) # <<>>
  THEN trim(timezone[1])
  ELSE FEISHU_CALENDAR_DEFAULT_TIMEZONE

\* The trimmed value; Undefined stands for the throw of "<field> is required".
ensureNonEmpty(value) ==
  IF value = Undefined \/ trim(value[1]) = <<>> THEN Undefined
  ELSE Defined(trim(value[1]))

\* throws says that the input is rejected; value is undefined or the input.
assertIsoDateTime(input) ==
  IF input = Undefined THEN [throws |-> FALSE, value |-> Undefined]
  ELSE IF ~input[1].iso THEN [throws |-> TRUE, value |-> Undefined]
  ELSE [throws |-> FALSE, value |-> input]

\* String(Math.floor(Date.parse(isoDateTime) / 1000)), as a number of seconds.
toEpochSeconds(isoDateTime) == isoDateTime.ms \div 1000

maybeToEpoch(input) ==
  LET normalized == assertIsoDateTime(input)
  IN IF normalized.throws \/ normalized.value = Undefined THEN normalized
     ELSE [throws |-> FALSE, value |-> Defined(toEpochSeconds(normalized.value[1]))]

normalizeCalendarEvent(rawEvent) ==
  [event_id |-> Coalesce(rawEvent.event_id, rawEvent.eventId),
   summary |-> rawEvent.summary]

\* runCalendarApiCall hands the call to runFeishuApiCall: the call is made,
\* and its answer is returned or a failure is thrown.
ApiOutcomes == {"ok", "throw"}

ApiCall(method, payload) == [method |-> method, payload |-> payload]

\* The call rejects with an error of this message.
Throw(message) ==
  /\ pc' = "rejected"
  /\ error' = Defined(message)
  /\ UNCHANGED <<params, calendars, calls, result>>

\* A variant of deleteCalendarEvent: confirm is not looked at.
deleteCalendarEventUnconfirmed ==
  /\ pc = "delete"
  /\ LET id      == ensureNonEmpty(params.calendar_id)
         eventId == ensureNonEmpty(params.event_id)
     IN IF id = Undefined THEN Throw("calendar_id is required")
        ELSE IF eventId = Undefined THEN Throw("event_id is required")
        ELSE /\ calls' = Append(calls,
                  ApiCall("calendarEvent.delete",
                          [path |-> [calendar_id |-> id[1], event_id |-> eventId[1]]]))
             /\ pc' = "deleteAwait"
             /\ UNCHANGED <<params, calendars, result, error>>
  /\ UNCHANGED calendarId
  /\ UNCHANGED <<markdownVars, docVars, responses, authVars>>

\* deleteCalendarEvent, up to its await.
deleteCalendarEvent ==
  /\ pc = "delete"
  /\ LET id      == ensureNonEmpty(params.calendar_id)
         eventId == ensureNonEmpty(params.event_id)
     IN IF id = Undefined THEN Throw("calendar_id is required")
        ELSE IF eventId = Undefined THEN Throw("event_id is required")
        ELSE IF params.confirm # Defined(TRUE)
        THEN Throw("Deletion rejected: confirm must be true to execute feishu_calendar_delete_event.")
        ELSE /\ calls' = Append(calls,
                  ApiCall("calendarEvent.delete",
                          [path |-> [calendar_id |-> id[1], event_id |-> eventId[1]]]))
             /\ pc' = "deleteAwait"
             /\ UNCHANGED <<params, calendars, result, error>>
  /\ UNCHANGED calendarId
  /\ UNCHANGED <<markdownVars, docVars, responses, authVars>>

\* The delete call settles and deleteCalendarEvent returns or rejects.
DeleteSettled ==
  /\ pc = "deleteAwait"
  /\ \E outcome \in ApiOutcomes :
       IF outcome = "throw" THEN Throw("calendar.v4.calendarEvent.delete failed")
       ELSE /\ result' = Defined([success |-> TRUE,
                                  calendar_id |-> ensureNonEmpty(params.calendar_id)[1],
                                  event_id |-> ensureNonEmpty(params.event_id)[1],
                                  confirm |-> TRUE])
            /\ pc' = "resolved"
            /\ UNCHANGED <<params, calendars, calls, error>>
  /\ UNCHANGED calendarId
  /\ UNCHANGED <<markdownVars, docVars, responses, authVars>>

\* listCalendarEvents once calendarId is known, up to its await: the times are
\* converted and compared and calendarEvent.list is called.
ListEvents(id) ==
  LET startTime == maybeToEpoch(params.start_time)
      endTime   == maybeToEpoch(params.end_time)
  IN /\ calendarId' = Defined(id)
     /\ IF startTime.throws
        THEN Throw("start_time must be ISO 8601 / RFC3339 with timezone")
        ELSE IF endTime.throws
        THEN Throw("end_time must be ISO 8601 / RFC3339 with timezone")
        ELSE IF startTime.value # Undefined /\ endTime.value # Undefined
                  /\ startTime.value[1] >= endTime.value[1]
        THEN Throw("start_time must be earlier than end_time")
        ELSE /\ calls' = Append(calls,
                  ApiCall("calendarEvent.list",
                          [path |-> [calendar_id |-> id],
                           params |-> [start_time |-> startTime.value,
                                       end_time |-> endTime.value,
                                       page_size |-> params.page_size,
                                       page_token |-> params.page_token]]))
             /\ pc' = "listAwait"
             /\ UNCHANGED <<params, calendars, result, error>>

\* A variant of listCalendarEvents: the calendar is always looked up.
listCalendarEventsAlwaysResolve ==
  /\ pc = "list"
  /\ calls' = Append(calls, ApiCall("calendar.list", [params |-> [page_size |-> 1]]))
  /\ pc' = "resolveAwait"
  /\ UNCHANGED <<params, calendars, calendarId, result, error>>
  /\ UNCHANGED <<markdownVars, docVars, responses, authVars>>

\* listCalendarEvents, up to its first await: resolveCalendarId returns the
\* trimmed calendar_id, or calls calendar.list when it is missing or blank.
listCalendarEvents ==
  /\ pc = "list"
  /\ IF params.calendar_id # Undefined /\ trim(params.calendar_id[1]) # <<>>
     THEN ListEvents(ensureNonEmpty(params.calendar_id)[1])
     ELSE /\ calls' = Append(calls,
               ApiCall("calendar.list", [params |-> [page_size |-> 1]]))
          /\ pc' = "resolveAwait"
          /\ UNCHANGED <<params, calendars, calendarId, result, error>>
  /\ UNCHANGED <<markdownVars, docVars, responses, authVars>>

\* calendar.list settles: resolveCalendarId takes the id of the first item, or
\* throws, and listCalendarEvents goes on.
ResolveSettled ==
  /\ pc = "resolveAwait"
  /\ \E outcome \in ApiOutcomes :
       IF outcome = "throw"
       THEN Throw("calendar.v4.calendar.list failed") /\ UNCHANGED calendarId
       ELSE LET item == IF calendars # Undefined /\ calendars[1] # <<>>
                        THEN Defined(calendars[1][1]) ELSE Undefined
                resolved == IF item = Undefined THEN Undefined
                            ELSE Coalesce(item[1].calendar_id,
                                          Coalesce(item[1].calendarId, item[1].id))
            IN IF resolved = Undefined \/ resolved[1] = <<>>
               THEN /\ Throw("calendar_id is required and no accessible calendar was found for current account")
                    /\ UNCHANGED calendarId
               ELSE ListEvents(resolved[1])
  /\ UNCHANGED <<markdownVars, docVars, responses, authVars>>

\* calendarEvent.list settles and listCalendarEvents returns or rejects.
ListSettled ==
  /\ pc = "listAwait"
  /\ \E outcome \in ApiOutcomes : \E data \in EventListResponses :
       IF outcome = "throw"
       THEN Throw("calendar.v4.calendarEvent.list failed")
       ELSE /\ result' = Defined(
                 [calendar_id |-> calendarId[1],
                  timezone |-> resolveCalendarTimezone(params.timezone),
                  default_timezone |-> FEISHU_CALENDAR_DEFAULT_TIMEZONE,
                  items |-> IF data = Undefined \/ data[1].items = Undefined
                            THEN <<>>
                            ELSE [k \in 1..Len(data[1].items[1]) |->
                                    normalizeCalendarEvent(data[1].items[1][k])],
                  page_token |-> IF data = Undefined THEN Undefined
                                 ELSE data[1].page_token,
                  has_more |-> IF data = Undefined THEN Undefined
                               ELSE data[1].has_more])
            /\ pc' = "resolved"
            /\ UNCHANGED <<params, calendars, calls, error>>
  /\ UNCHANGED calendarId
  /\ UNCHANGED <<markdownVars, docVars, responses, authVars>>

\* ------------------------------------------------------------------------
\* The document tool (docx.ts): its pure functions.

\* One iteration of the loop of parseMarkdown at index at, for the construct
\* kind of its line: the index it leaves and the nodes it appends.
codeIteration(ls, at, lang, end) ==
  [nextIndex |-> end + 1,
   added |-> <<[type |-> "code",
                language |-> IF lang = <<>> THEN Undefined ELSE Defined(lang),
                content |-> codeContent(ls, at + 1, end)]>>]

quoteIteration(ls, at, end) ==
  [nextIndex |-> end,
   added |-> <<[type |-> "quote",
                content |-> join([k \in 1..(end - at) |->
                                    trim(sliceFrom(trim(LineAt(ls, at + k - 1)), 1))],
                                 <<NL>>)]>>]

tableIteration(ls, at, end) ==
  [nextIndex |-> end, added |-> parseTable(SubSeq(ls, at + 1, end))]

listIteration(listResult) ==
  [nextIndex |-> listResult.nextIndex, added |-> <<listResult.node>>]

headingIteration(at, match) ==
  [nextIndex |-> at + 1,
   added |-> <<[type |-> "heading", level |-> match.level,
                content |-> trim(match.content)]>>]

paragraphIteration(end, paraLines) ==
  [nextIndex |-> end,
   added |-> IF Len(paraLines) > 0
             THEN <<[type |-> "paragraph",
                     content |-> trim(join(paraLines, <<SP>>))]>>
             ELSE <<>>]

iterationOf(ls, at, line, kind) ==
  CASE kind = "blank" -> [nextIndex |-> at + 1, added |-> <<>>]
    [] kind = "heading" -> headingIteration(at, headingMatch(trim(line)))
    [] kind = "code" ->
         codeIteration(ls, at, trim(sliceFrom(trim(line), 3)), codeEnd(ls, at + 1))
    [] kind = "divider" -> [nextIndex |-> at + 1, added |-> <<[type |-> "divider"]>>]
    [] kind = "quote" -> quoteIteration(ls, at, quoteEnd(ls, at))
    [] kind = "table" -> tableIteration(ls, at, tableEnd(ls, at))
    [] kind = "list" -> listIteration(parseList(ls, at))
    [] OTHER -> paragraphIteration(paragraphEnd(ls, at),
                                   SubSeq(ls, at + 1, paragraphEnd(ls, at)))

parseIteration(ls, at) == iterationOf(ls, at, LineAt(ls, at), construct(LineAt(ls, at)))

\* parseMarkdown from index at with the nodes ns: Defined(nodes) when the loop
\* ends, Undefined when it does not (an iteration r that leaves the index as it
\* was repeats for ever, for what it does depends on the lines and on the index
\* only).
RECURSIVE parseMarkdownFrom(_, _, _)
afterIteration(ls, at, ns, r) ==
  IF r.nextIndex = at THEN Undefined
  ELSE parseMarkdownFrom(ls, r.nextIndex, ns \o r.added)

parseMarkdownFrom(ls, at, ns) ==
  IF at >= Len(ls) THEN Defined(ns)
  ELSE afterIteration(ls, at, ns, parseIteration(ls, at))

\* An optional value through a function: Undefined stays Undefined.
blocksOf(ns) == IF ns = Undefined THEN Undefined ELSE Defined(nodesToBlocks(ns[1]))

\* Defined(blocks), or Undefined when parseMarkdown does not return.
convertMarkdownToBlocks(md) == blocksOf(parseMarkdownFrom(split(md, NL), 0, <<>>))

localResultOf(bs) == IF bs = Undefined THEN Undefined ELSE Defined([blocks |-> bs[1]])

\* Defined({ blocks }), or Undefined when the conversion does not return.
convertMarkdownLocal(md) ==
  localResultOf(convertMarkdownToBlocks(preprocessMarkdown(md)))

BLOCK_TYPE_NAMES ==
  { <<1, "Page">>, <<2, "Text">>, <<3, "Heading1">>, <<4, "Heading2">>,
    <<5, "Heading3">>, <<6, "Heading4">>, <<7, "Heading5">>, <<8, "Heading6">>,
    <<9, "Heading7">>, <<10, "Heading8">>, <<11, "Heading9">>, <<12, "Bullet">>,
    <<13, "Ordered">>, <<14, "Code">>, <<15, "Quote">>, <<16, "Todo">>,
    <<17, "Callout">>, <<18, "ChatCard">>, <<19, "Diagram">>, <<20, "File">>,
    <<22, "Divider">>, <<23, "Image">>, <<24, "Table">>, <<25, "TableCell">>,
    <<26, "Iframe">>, <<27, "Sheet">>, <<31, "View">> }

\* BLOCK_TYPE_NAMES[t] || `type_${t}`
typeName(t) ==
  IF \E e \in BLOCK_TYPE_NAMES : e[1] = t
  THEN (CHOOSE e \in BLOCK_TYPE_NAMES : e[1] = t)[2]
  ELSE "type_"

UNSUPPORTED_CREATE_TYPES == {24, 25}

\* The object without the properties named: the effect of delete.
Without(object, names) == [k \in (DOMAIN object) \ names |-> object[k]]

\* A variant of cleanBlocksForInsert: no type is unsupported.
RECURSIVE cleanBlocksKeepAll(_)
cleanBlocksKeepAll(bs) ==
  IF bs = <<>> THEN [cleaned |-> <<>>, skipped |-> <<>>, warnings |-> <<>>]
  ELSE LET rest == cleanBlocksKeepAll(Tail(bs))
       IN [rest EXCEPT !.cleaned =
             <<Without(Head(bs), {"block_id", "parent_id", "children",
                                  "document_id"})>> \o @]

RECURSIVE cleanBlocksForInsert(_)
cleanBlocksForInsert(bs) ==
  IF bs = <<>> THEN [cleaned |-> <<>>, skipped |-> <<>>, warnings |-> <<>>]
  ELSE LET block == Head(bs)
           rest  == cleanBlocksForInsert(Tail(bs))
           bare  == Without(block, {"block_id", "parent_id", "children",
                                    "document_id"})
           cleanedBlock ==
             IF bare.block_type = 24 /\ "table" \in DOMAIN bare
                  /\ "merge_info" \in DOMAIN bare.table
             THEN [bare EXCEPT !.table = Without(bare.table, {"merge_info"})]
             ELSE bare
       IN IF block.block_type \in UNSUPPORTED_CREATE_TYPES
          THEN [rest EXCEPT
                  !.skipped = <<typeName(block.block_type)>> \o @,
                  !.warnings = <<<<"Skipped unsupported block type: ",
                                   typeName(block.block_type)>>>> \o @]
          ELSE [rest EXCEPT !.cleaned = <<cleanedBlock>> \o @]

\* JSON.stringify(data, null, 2), kept as the value it serializes.
stringify(data) == <<"JSON", data>>

json(data) ==
  [content |-> <<[type |-> "text", text |-> stringify(data)]>>, details |-> data]

\* /!\[[^\]]*\]\(([^)]+)\)/ tried at position p.
imageAt(md, p) ==
  LET a == RunNot(md, p + 2, {"]"})
      q == p + 2 + a
      u == RunNot(md, q + 2, {")"})
      r == q + 2 + u
  IN [ok |-> CharAt(md, p) = "!" /\ CharAt(md, p + 1) = "[" /\ CharAt(md, q) = "]"
               /\ CharAt(md, q + 1) = "(" /\ u >= 1 /\ CharAt(md, r) = ")",
      url |-> SubSeq(md, q + 2, r - 1),
      end |-> r]

HttpPrefix == <<"h", "t", "t", "p", ":", "/", "/">>
HttpsPrefix == <<"h", "t", "t", "p", "s", ":", "/", "/">>

\* extractImageUrls from position p on.
RECURSIVE extractImageUrlsFrom(_, _)
extractImageUrlsFrom(md, p) ==
  IF p > Len(md) THEN <<>>
  ELSE LET m   == imageAt(md, p)
           url == trim(m.url)
       IN IF ~m.ok THEN extractImageUrlsFrom(md, p + 1)
          ELSE (IF startsWith(url, HttpPrefix) \/ startsWith(url, HttpsPrefix)
                THEN <<url>> ELSE <<>>)
               \o extractImageUrlsFrom(md, m.end + 1)

extractImageUrls(md) == extractImageUrlsFrom(md, 1)

\* ------------------------------------------------------------------------
\* The document tool: inputs.

DocToken == "doc"

\* The markdown of a call: empty, one paragraph, a table, a text that
\* parseMarkdown never finishes, and an image.
ImageMarkdown ==
  <<"!", "[", "i", "]", "(">> \o HttpPrefix \o <<"x", ")">>

DocMarkdowns ==
  { <<>>, <<"x">>, TableExample, <<"*", "*", "b", "*", "*">>, ImageMarkdown }

\* The options of convertMarkdown: absent, or each property absent, false or
\* true.
OptionalBoolean == {Undefined, Defined(FALSE), Defined(TRUE)}

ConvertOptions ==
  {Undefined} \cup {Defined([preferLocal |-> a, fallbackToLocal |-> b]) :
                      a \in OptionalBoolean, b \in OptionalBoolean}

\* Blocks as the convert API answers them, with their read-only properties.
ApiText ==
  [block_type |-> 2, block_id |-> "b1", parent_id |-> DocToken, children |-> <<>>,
   text |-> [elements |-> <<[text_run |-> [content |-> <<"x">>]]>>]]

ApiTable ==
  [block_type |-> 24, block_id |-> "t1", parent_id |-> DocToken,
   children |-> <<"c1">>, table |-> [cells |-> <<"c1">>, merge_info |-> <<>>]]

ApiCell == [block_type |-> 25, block_id |-> "c1", parent_id |-> "t1"]

ApiImage == [block_type |-> 27, block_id |-> "i1", document_id |-> DocToken]

ApiCode == [block_type |-> 14, block_id |-> "k1", code |-> [elements |-> <<>>]]

ConvertAnswers ==
  { <<>>, <<ApiText>>, <<ApiTable, ApiCell>>, <<ApiText, ApiTable>>,
    <<ApiImage, ApiText>>, <<ApiCode>> }

\* How a call of the SDK client ends: a response with code 0, a response with
\* another code and a message, or an exception.
RemoteOutcomes == {"ok", "code", "throw"}
RemoteMsg == "remote msg"
RemoteError == "remote error"

\* The remote document: the page block and the blocks under it.
Page == [block_id |-> DocToken, parent_id |-> "", block_type |-> 1]
Item(id, parent, type) == [block_id |-> id, parent_id |-> parent, block_type |-> type]

DocumentInputs ==
  { <<Page>>,
    <<Page, Item("c1", DocToken, 2)>>,
    <<Page, Item("c1", DocToken, 14), Item("c2", "c1", 2), Item("c3", DocToken, 2)>> }

DocActions ==
  {"read", "write", "append", "create", "list_blocks", "get_block",
   "update_block", "delete_block", "delete"}

ExecuteParams ==
  {[action |-> a, doc_token |-> DocToken, content |-> <<"x">>, block_id |-> b] :
     a \in (DocActions \ {"write", "append"}) \cup {"bogus"}, b \in {"c1", "zz"}}
    \cup {[action |-> a, doc_token |-> DocToken, content |-> md, block_id |-> "c1"] :
            a \in {"write", "append"}, md \in DocMarkdowns}

InitDocCall ==
  /\ calls = <<>> /\ result = Undefined /\ error = Undefined
  /\ calendars = Undefined /\ calendarId = Undefined
  /\ deleted = Undefined
  /\ responses = <<>>
  /\ NoMarkdownRun
  /\ NoAuthRun

InitConvert ==
  /\ pc = "convertMarkdown" /\ entry = Defined("convertMarkdown")
  /\ params = Undefined
  /\ options \in ConvertOptions
  /\ markdown \in {Defined(md) : md \in DocMarkdowns}
  /\ configured = Defined(TRUE)
  /\ document = Defined(<<Page>>)
  /\ converted = Undefined
  /\ InitDocCall

InitInsert ==
  /\ pc = "insertBlocks" /\ entry = Defined("insertBlocks")
  /\ params = Undefined
  /\ options = Undefined /\ markdown = Undefined
  /\ configured = Defined(TRUE)
  /\ document = Defined(<<Page>>)
  /\ converted \in {Defined([blocks |-> bs]) : bs \in ConvertAnswers}
  /\ InitDocCall

InitExecute ==
  /\ pc = "execute" /\ entry = Defined("execute")
  /\ params \in ExecuteParams
  /\ options = Undefined /\ markdown = Undefined
  /\ configured \in {Defined(FALSE), Defined(TRUE)}
  /\ document \in {Defined(d) : d \in DocumentInputs}
  /\ converted = Undefined
  /\ InitDocCall

\* ------------------------------------------------------------------------
\* The document tool: how a function ends, and the calls of execute that make
\* one remote call or a fixed chain of them.

InExecute == entry = Defined("execute")

\* A variant of DocThrow: execute has no catch.
DocThrowUncaught(message) ==
  /\ pc' = "rejected"
  /\ error' = Defined(message)
  /\ UNCHANGED <<calls, result>>

\* throw new Error(message): execute catches it and returns json({ error }).
DocThrow(message) ==
  /\ pc' = (IF InExecute THEN "resolved" ELSE "rejected")
  /\ result' = (IF InExecute THEN Defined(json([error |-> message])) ELSE result)
  /\ error' = (IF InExecute THEN error ELSE Defined(message))
  /\ UNCHANGED calls

\* return value, after the calls extra: execute returns json(value).
DocReturnAfter(value, extra) ==
  /\ pc' = "resolved"
  /\ result' = Defined(IF InExecute THEN json(value) ELSE value)
  /\ calls' = calls \o extra
  /\ UNCHANGED error

DocReturn(value) == DocReturnAfter(value, <<>>)

\* The function does not return: parseMarkdown loops for ever.
DocHang ==
  /\ pc' = "hang"
  /\ UNCHANGED <<calls, result, error>>

\* await of a call of the client.
DocAwait(label, method, payload) ==
  /\ pc' = label
  /\ calls' = Append(calls, ApiCall(method, payload))
  /\ UNCHANGED <<result, error>>

\* if (res.code !== 0) throw new Error(res.msg), or the exception of the call.
DocFail(outcome) ==
  DocThrow(IF outcome = "code" THEN RemoteMsg ELSE RemoteError)

DocPath == [document_id |-> DocToken]
BlockPath == [document_id |-> DocToken, block_id |-> params.block_id]

\* What convertMarkdown is called with by writeDoc and appendDoc.
WriteOptions ==
  Defined([preferLocal |-> Undefined, fallbackToLocal |-> Defined(TRUE)])

ConvertPayload(md) == [data |-> [content_type |-> "markdown", content |-> md]]

DocUntouched == UNCHANGED <<markdownVars, calendars, calendarId, authVars>>

\* execute, up to its first await.
Execute ==
  /\ pc = "execute"
  /\ IF configured # Defined(TRUE)
     THEN /\ DocThrow(<<"Feishu credentials not configured for account ", "default">>)
          /\ UNCHANGED <<options, markdown>>
     ELSE CASE params.action = "read" ->
                 /\ pc' = "read.await"
                 /\ calls' = calls \o <<ApiCall("docx.document.rawContent", [path |-> DocPath]),
                                        ApiCall("docx.document.get", [path |-> DocPath]),
                                        ApiCall("docx.documentBlock.list", [path |-> DocPath])>>
                 /\ UNCHANGED <<result, error, options, markdown>>
            [] params.action = "write" ->
                 /\ DocAwait("write.list", "docx.documentBlock.list", [path |-> DocPath])
                 /\ markdown' = Defined(params.content)
                 /\ UNCHANGED options
            [] params.action = "append" ->
                 /\ DocAwait("convert.await", "docx.document.convert",
                             ConvertPayload(params.content))
                 /\ markdown' = Defined(params.content)
                 /\ options' = WriteOptions
            [] params.action = "create" ->
                 /\ DocAwait("single.await", "docx.document.create",
                             [data |-> [title |-> Undefined, folder_token |-> Undefined]])
                 /\ UNCHANGED <<options, markdown>>
            [] params.action = "list_blocks" ->
                 /\ DocAwait("single.await", "docx.documentBlock.list", [path |-> DocPath])
                 /\ UNCHANGED <<options, markdown>>
            [] params.action = "get_block" ->
                 /\ DocAwait("single.await", "docx.documentBlock.get", [path |-> BlockPath])
                 /\ UNCHANGED <<options, markdown>>
            [] params.action = "update_block" ->
                 /\ DocAwait("update.get", "docx.documentBlock.get", [path |-> BlockPath])
                 /\ UNCHANGED <<options, markdown>>
            [] params.action = "delete_block" ->
                 /\ DocAwait("delete_block.get", "docx.documentBlock.get", [path |-> BlockPath])
                 /\ UNCHANGED <<options, markdown>>
            [] params.action = "delete" ->
                 /\ DocAwait("single.await", "drive.file.delete",
                             [path |-> [file_token |-> DocToken], params |-> [type |-> "docx"]])
                 /\ UNCHANGED <<options, markdown>>
            [] OTHER ->
                 /\ DocReturn([error |-> <<"Unknown action: ", params.action>>])
                 /\ UNCHANGED <<options, markdown>>
  /\ UNCHANGED <<params, entry, configured, document, deleted, converted>>
  /\ UNCHANGED responses
  /\ DocUntouched

STRUCTURED_BLOCK_TYPES == {14, 17, 18, 19, 20, 21, 23, 27, 30, 31}

\* The names of the structured types among the blocks, each once, in the order
\* of their first block.
RECURSIVE structuredTypes(_, _)
structuredTypes(bs, seen) ==
  IF bs = <<>> THEN <<>>
  ELSE LET name == typeName(Head(bs).block_type)
       IN IF Head(bs).block_type \in STRUCTURED_BLOCK_TYPES /\ name \notin seen
          THEN <<name>> \o structuredTypes(Tail(bs), seen \cup {name})
          ELSE structuredTypes(Tail(bs), seen)

\* readDoc after Promise.all of its three calls: a call that throws rejects
\* the whole; only the code of the raw content is looked at.
ReadSettled ==
  /\ pc = "read.await"
  /\ \E contentRes \in RemoteOutcomes, infoRes \in RemoteOutcomes,
        blocksRes \in RemoteOutcomes :
       /\ responses' = responses \o <<contentRes, infoRes, blocksRes>>
       /\ IF "throw" \in {contentRes, infoRes, blocksRes} THEN DocThrow(RemoteError)
          ELSE IF contentRes = "code" THEN DocThrow(RemoteMsg)
          ELSE LET bs    == IF blocksRes = "ok" THEN document[1] ELSE <<>>
                   names == {typeName(bs[k].block_type) : k \in 1..Len(bs)}
                   st    == structuredTypes(bs, {})
                   base  == [title |-> IF infoRes = "ok" THEN Defined("title") ELSE Undefined,
                             content |-> Defined("content"),
                             revision_id |-> IF infoRes = "ok" THEN Defined(1) ELSE Undefined,
                             block_count |-> Len(bs),
                             block_types |->
                               [n \in names |->
                                  Cardinality({k \in 1..Len(bs) :
                                                 typeName(bs[k].block_type) = n})]]
               IN DocReturn(IF st = <<>> THEN base ELSE base @@ [hint |-> st])
  /\ UNCHANGED <<params, docVars>>
  /\ DocUntouched

\* createDoc, listBlocks, getBlock and deleteDocument after their one call.
SingleSettled ==
  /\ pc = "single.await"
  /\ \E outcome \in RemoteOutcomes :
       /\ responses' = Append(responses, outcome)
       /\ IF outcome # "ok" THEN DocFail(outcome) /\ UNCHANGED document
          ELSE CASE params.action = "create" ->
                      /\ DocReturn([document_id |-> Defined("new"),
                                    title |-> Undefined,
                                    url |-> <<"https://feishu.cn/docx/", "new">>])
                      /\ UNCHANGED document
                 [] params.action = "list_blocks" ->
                      /\ DocReturn([blocks |-> document[1]])
                      /\ UNCHANGED document
                 [] params.action = "get_block" ->
                      /\ DocReturn([block |->
                           SelectSeq(document[1],
                                     LAMBDA b : b.block_id = params.block_id)])
                      /\ UNCHANGED document
                 [] OTHER ->
                      /\ DocReturn([success |-> TRUE, document_id |-> DocToken,
                                    task_id |-> Defined("task")])
                      /\ document' = Defined(<<>>)
  /\ UNCHANGED <<params, entry, options, markdown, configured, deleted, converted>>
  /\ DocUntouched

\* updateBlock after documentBlock.get.
UpdateGetSettled ==
  /\ pc = "update.get"
  /\ \E outcome \in RemoteOutcomes :
       /\ responses' = Append(responses, outcome)
       /\ IF outcome # "ok" THEN DocFail(outcome)
          ELSE DocAwait("update.patch", "docx.documentBlock.patch",
                        [path |-> BlockPath,
                         data |-> [update_text_elements |->
                                     [elements |-> <<[text_run |->
                                                        [content |-> params.content]]>>]]])
  /\ UNCHANGED <<params, docVars>>
  /\ DocUntouched

\* updateBlock after documentBlock.patch.
UpdatePatchSettled ==
  /\ pc = "update.patch"
  /\ \E outcome \in RemoteOutcomes :
       /\ responses' = Append(responses, outcome)
       /\ IF outcome # "ok" THEN DocFail(outcome)
          ELSE DocReturn([success |-> TRUE, block_id |-> params.block_id])
  /\ UNCHANGED <<params, docVars>>
  /\ DocUntouched

\* deleteBlock after documentBlock.get: the parent is the block's, or the
\* document when the answer names none.
DeleteBlockGetSettled ==
  /\ pc = "delete_block.get"
  /\ \E outcome \in RemoteOutcomes :
       /\ responses' = Append(responses, outcome)
       /\ IF outcome # "ok" THEN DocFail(outcome)
          ELSE LET found    == SelectSeq(document[1],
                                         LAMBDA b : b.block_id = params.block_id)
                   parentId == IF found = <<>> THEN DocToken ELSE found[1].parent_id
               IN DocAwait("delete_block.children", "docx.documentBlockChildren.get",
                           [path |-> [document_id |-> DocToken, block_id |-> parentId]])
  /\ UNCHANGED <<params, docVars>>
  /\ DocUntouched

\* deleteBlock after documentBlockChildren.get: findIndex, then batchDelete.
DeleteBlockChildrenSettled ==
  /\ pc = "delete_block.children"
  /\ \E outcome \in RemoteOutcomes :
       /\ responses' = Append(responses, outcome)
       /\ IF outcome # "ok" THEN DocFail(outcome)
          ELSE LET parentId == calls[Len(calls)].payload.path.block_id
                   items    == SelectSeq(document[1], LAMBDA b : b.parent_id = parentId)
                   at       == {k \in 1..Len(items) : items[k].block_id = params.block_id}
               IN IF at = {} THEN DocThrow("Block not found")
                  ELSE LET index == (CHOOSE k \in at : \A j \in at : k <= j) - 1
                       IN DocAwait("delete_block.delete",
                                   "docx.documentBlockChildren.batchDelete",
                                   [path |-> [document_id |-> DocToken,
                                              block_id |-> parentId],
                                    data |-> [start_index |-> index,
                                              end_index |-> index + 1]])
  /\ UNCHANGED <<params, docVars>>
  /\ DocUntouched

\* deleteBlock after batchDelete: the block and what is under it are gone.
DeleteBlockDeleteSettled ==
  /\ pc = "delete_block.delete"
  /\ \E outcome \in RemoteOutcomes :
       /\ responses' = Append(responses, outcome)
       /\ IF outcome # "ok" THEN DocFail(outcome) /\ UNCHANGED document
          ELSE /\ DocReturn([success |-> TRUE, deleted_block_id |-> params.block_id])
               /\ document' = Defined(SelectSeq(document[1],
                    LAMBDA b : b.block_id # params.block_id
                                 /\ b.parent_id # params.block_id))
  /\ UNCHANGED <<params, entry, options, markdown, configured, deleted, converted>>
  /\ DocUntouched

\* ------------------------------------------------------------------------
\* The document tool: convertMarkdown, insertBlocks, writeDoc and appendDoc.

\* convertMarkdownViaApi on a response of code 0 with these blocks: a code
\* block without elements gets one empty TextRun.
apiConverted(answer) ==
  [blocks |-> [k \in 1..Len(answer) |->
                 IF answer[k].block_type = 14 /\ "code" \in DOMAIN answer[k]
                      /\ ("elements" \notin DOMAIN answer[k].code
                            \/ answer[k].code.elements = <<>>)
                 THEN [answer[k] EXCEPT !.code =
                         [elements |-> <<[text_run |-> [content |-> <<>>]]>>]
                           @@ answer[k].code]
                 ELSE answer[k]],
   firstLevelBlockIds |-> [k \in 1..Len(answer) |-> answer[k].block_id],
   warnings |-> Undefined,
   method |-> "api"]

\* The local branch of convertMarkdown, with the warnings pushed before it.
localOutcome(localResult, warnings) ==
  IF localResult = Undefined THEN [kind |-> "hang"]
  ELSE [kind |-> "return",
        value |-> [blocks |-> localResult[1].blocks,
                   warnings |-> warnings,
                   method |-> "local"]]

localConverted(md, warnings) == localOutcome(convertMarkdownLocal(md), warnings)

\* A variant of convertSettled: fallbackToLocal is not looked at.
convertSettledAlwaysFallback(md, opts, outcome, answer) ==
  IF outcome = "ok" THEN [kind |-> "return", value |-> apiConverted(answer)]
  ELSE localConverted(md,
         Defined(<<<<"API conversion failed: ",
                     IF outcome = "code" THEN <<"API convert failed: ", RemoteMsg>>
                     ELSE RemoteError,
                     ". Falling back to local converter.">>>>))

\* convertMarkdown after the convert call: what it returns or throws.
convertSettled(md, opts, outcome, answer) ==
  LET message == IF outcome = "code" THEN <<"API convert failed: ", RemoteMsg>>
                 ELSE RemoteError
  IN IF outcome = "ok" THEN [kind |-> "return", value |-> apiConverted(answer)]
     ELSE IF opts = Undefined \/ opts[1].fallbackToLocal # Defined(FALSE)
     THEN localConverted(md,
            Defined(<<<<"API conversion failed: ", message,
                        ". Falling back to local converter.">>>>))
     ELSE [kind |-> "throw", message |-> message]

NewId(k) == CASE k = 1 -> "n1" [] k = 2 -> "n2" [] OTHER -> "n3"

CreatePayload(cleaned) ==
  [path |-> [document_id |-> DocToken, block_id |-> DocToken],
   data |-> [children |-> cleaned]]

\* How the processing of one image ends: the download fails, the upload
\* fails, the patch fails (each is caught), or the image is processed.
ImageOutcomes == {"download", "upload", "patch", "ok"}

RECURSIVE imageCalls(_, _, _)
imageCalls(imageBlocks, outs, k) ==
  IF k > Len(outs) THEN <<>>
  ELSE (CASE outs[k] = "download" -> <<>>
          [] outs[k] = "upload" ->
               <<ApiCall("drive.media.uploadAll",
                         [parent_node |-> imageBlocks[k].block_id])>>
          [] OTHER ->
               <<ApiCall("drive.media.uploadAll",
                         [parent_node |-> imageBlocks[k].block_id]),
                 ApiCall("docx.documentBlock.patch",
                         [path |-> [document_id |-> DocToken,
                                    block_id |-> imageBlocks[k].block_id]])>>)
       \o imageCalls(imageBlocks, outs, k + 1)

\* The result of writeDoc or appendDoc once the blocks are in.
docResult(conv, clean, inserted, imagesProcessed) ==
  LET allWarnings == (IF conv.warnings = Undefined THEN <<>> ELSE conv.warnings[1])
                       \o clean.warnings
      base == IF params.action = "write"
              THEN [success |-> TRUE, blocks_deleted |-> deleted[1],
                    blocks_added |-> Len(inserted),
                    images_processed |-> imagesProcessed,
                    conversion_method |-> conv.method]
              ELSE [success |-> TRUE, blocks_added |-> Len(inserted),
                    images_processed |-> imagesProcessed,
                    block_ids |-> [k \in 1..Len(inserted) |-> inserted[k].block_id],
                    conversion_method |-> conv.method]
      warned == IF Len(clean.skipped) > 0
                THEN base @@ [warning |->
                       <<"Skipped unsupported block types: ", clean.skipped,
                         ". Tables are not supported via this API.">>]
                ELSE base
  IN IF Len(allWarnings) > 0 THEN warned @@ [warnings |-> allWarnings] ELSE warned

\* insertBlocks, up to its await; with nothing to insert it returns, and so
\* does processImages, which finds no image block.
StartInsert(conv) ==
  LET clean == cleanBlocksForInsert(conv.blocks)
  IN IF Len(clean.cleaned) = 0
     THEN DocReturn(IF InExecute THEN docResult(conv, clean, <<>>, 0)
                    ELSE [children |-> <<>>, skipped |-> clean.skipped,
                          warnings |-> clean.warnings])
     ELSE DocAwait("insert.await", "docx.documentBlockChildren.create",
                   CreatePayload(clean.cleaned))

\* A variant of AfterConvert: the number of blocks is not looked at.
AfterConvertAlwaysInsert(conv) == StartInsert(conv)

\* writeDoc and appendDoc once convertMarkdown has returned conv.
AfterConvert(conv) ==
  IF Len(conv.blocks) = 0
  THEN IF params.action = "write"
       THEN DocReturn([success |-> TRUE, blocks_deleted |-> deleted[1],
                       blocks_added |-> 0, images_processed |-> 0,
                       conversion_method |-> conv.method])
       ELSE DocThrow("Content is empty")
  ELSE StartInsert(conv)

\* clearDocumentContent after documentBlock.list: the children of the
\* document are counted and, when there are any, deleted by index.
ClearListSettled ==
  /\ pc = "write.list"
  /\ \E outcome \in RemoteOutcomes :
       /\ responses' = Append(responses, outcome)
       /\ IF outcome # "ok"
          THEN DocFail(outcome) /\ UNCHANGED <<deleted, options>>
          ELSE LET childIds == SelectSeq(document[1],
                                 LAMBDA b : b.parent_id = DocToken /\ b.block_type # 1)
               IN /\ deleted' = Defined(Len(childIds))
                  /\ IF Len(childIds) > 0
                     THEN /\ DocAwait("write.delete",
                                      "docx.documentBlockChildren.batchDelete",
                                      [path |-> [document_id |-> DocToken,
                                                 block_id |-> DocToken],
                                       data |-> [start_index |-> 0,
                                                 end_index |-> Len(childIds)]])
                          /\ UNCHANGED options
                     ELSE /\ DocAwait("convert.await", "docx.document.convert",
                                      ConvertPayload(markdown[1]))
                          /\ options' = WriteOptions
  /\ UNCHANGED <<params, entry, markdown, configured, document, converted>>
  /\ DocUntouched

\* clearDocumentContent after batchDelete, then writeDoc up to the await of
\* convertMarkdown.
ClearDeleteSettled ==
  /\ pc = "write.delete"
  /\ \E outcome \in RemoteOutcomes :
       /\ responses' = Append(responses, outcome)
       /\ IF outcome # "ok"
          THEN DocFail(outcome) /\ UNCHANGED <<document, options>>
          ELSE /\ document' = Defined(SelectSeq(document[1], LAMBDA b : b.block_type = 1))
               /\ DocAwait("convert.await", "docx.document.convert",
                           ConvertPayload(markdown[1]))
               /\ options' = WriteOptions
  /\ UNCHANGED <<params, entry, markdown, configured, deleted, converted>>
  /\ DocUntouched

\* convertMarkdown with preferLocal: the local result is returned.
ReturnLocal(local) ==
  IF local.kind = "hang" THEN DocHang /\ UNCHANGED converted
  ELSE DocReturn(local.value) /\ converted' = Defined(local.value)

\* convertMarkdown called on its own, up to its await.
ConvertMarkdown ==
  /\ pc = "convertMarkdown"
  /\ IF options # Undefined /\ options[1].preferLocal = Defined(TRUE)
     THEN ReturnLocal(localConverted(markdown[1], Undefined))
     ELSE /\ DocAwait("convert.await", "docx.document.convert",
                      ConvertPayload(markdown[1]))
          /\ UNCHANGED converted
  /\ UNCHANGED <<params, entry, options, markdown, configured, document, deleted>>
  /\ UNCHANGED responses
  /\ DocUntouched

\* What follows convertMarkdown once it has settled, up to the next await.
Converted(settled) ==
  CASE settled.kind = "hang" -> DocHang /\ UNCHANGED converted
    [] settled.kind = "throw" -> DocThrow(settled.message) /\ UNCHANGED converted
    [] OTHER ->
         /\ converted' = Defined(settled.value)
         /\ IF InExecute THEN AfterConvert(settled.value)
            ELSE DocReturn(settled.value)

\* convertMarkdown after the convert call, and what its caller does with the
\* result up to the next await.
ConvertSettled ==
  /\ pc = "convert.await"
  /\ \E outcome \in RemoteOutcomes, answer \in ConvertAnswers :
       /\ responses' = Append(responses, outcome)
       /\ Converted(convertSettled(markdown[1], options, outcome, answer))
  /\ UNCHANGED <<params, entry, options, markdown, configured, document, deleted>>
  /\ DocUntouched

\* insertBlocks called on its own, up to its await.
InsertBlocks ==
  /\ pc = "insertBlocks"
  /\ StartInsert(converted[1])
  /\ UNCHANGED <<params, docVars>>
  /\ UNCHANGED responses
  /\ DocUntouched

\* insertBlocks after documentBlockChildren.create; in writeDoc and appendDoc,
\* processImages and the result follow.
InsertSettled ==
  /\ pc = "insert.await"
  /\ \E outcome \in RemoteOutcomes :
       /\ responses' = Append(responses, outcome)
       /\ IF outcome # "ok"
          THEN /\ DocThrow(IF outcome = "code"
                           THEN <<"Failed to insert blocks: ", RemoteMsg>>
                           ELSE RemoteError)
               /\ UNCHANGED document
          ELSE LET clean    == cleanBlocksForInsert(converted[1].blocks)
                   children == [k \in 1..Len(clean.cleaned) |->
                                  clean.cleaned[k] @@ [block_id |-> NewId(k)]]
                   imageUrls   == IF InExecute THEN extractImageUrls(markdown[1]) ELSE <<>>
                   imageBlocks == SelectSeq(children,
                                            LAMBDA b : b.block_type \in {23, 27})
                   n == IF Len(imageUrls) < Len(imageBlocks)
                        THEN Len(imageUrls) ELSE Len(imageBlocks)
               IN /\ document' = Defined(document[1] \o
                       [k \in 1..Len(children) |->
                          Item(NewId(k), DocToken, children[k].block_type)])
                  /\ IF InExecute
                     THEN \E outs \in [1..n -> ImageOutcomes] :
                            DocReturnAfter(
                              docResult(converted[1], clean, children,
                                        Cardinality({k \in 1..n : outs[k] = "ok"})),
                              imageCalls(imageBlocks, outs, 1))
                     ELSE DocReturn([children |-> children, skipped |-> clean.skipped,
                                     warnings |-> clean.warnings])
  /\ UNCHANGED <<params, entry, options, markdown, configured, deleted, converted>>
  /\ DocUntouched

\* ------------------------------------------------------------------------
\* The user tokens: client.ts.  Time is counted in units of ten minutes.

bufferMs == 1
ExpiresIn == 12
MaxNow == 2

AccountId == "default"

TokenEntry(token, refresh, expiresAt) ==
  [accessToken |-> token, refreshToken |-> refresh, openId |-> "ou",
   expiresAt |-> expiresAt]

\* The entry of the account when the calls start: none, one that is within
\* the buffer of its expiry, one that is not.
TokenCaches ==
  {Undefined, Defined(TokenEntry(0, 0, 1)), Defined(TokenEntry(0, 0, 3))}

\* Date.now() + bufferMs >= cache.expiresAt
isTokenExpired(cache) == now + bufferMs >= cache.expiresAt

\* How the token endpoint answers a refresh request: a status that is not ok,
\* a body with a non-zero code, an exception of fetch, or a body with code 0,
\* a new access token and, or not, a new refresh token.
RefreshFailures == {"status", "code", "throw"}

TokenAnswers(n) ==
  {[kind |-> k] : k \in RefreshFailures}
    \cup {[kind |-> "ok", access_token |-> n, refresh_token |-> r] :
            r \in {Undefined, Defined(n)}}

\* refreshUserToken(cache), once the endpoint has answered.
refreshUserToken(cache, response) ==
  IF response.kind \in RefreshFailures THEN Undefined
  ELSE Defined([cache EXCEPT
                  !.accessToken = response.access_token,
                  !.refreshToken = IF response.refresh_token = Undefined
                                   THEN cache.refreshToken
                                   ELSE response.refresh_token[1],
                  !.expiresAt = now + ExpiresIn])

\* getUserAccessToken up to its await, or to its return when there is none.
getStarted ==
  IF userTokenCache = Undefined
  THEN [Idle EXCEPT !.pc = "returned", !.readAt = now]
  ELSE IF isTokenExpired(userTokenCache[1])
  THEN [Idle EXCEPT !.pc = "refresh", !.cache = userTokenCache, !.readAt = now]
  ELSE [Idle EXCEPT !.pc = "returned", !.cache = userTokenCache, !.readAt = now,
                    !.value = Defined(userTokenCache[1].accessToken)]

TokenUntouched ==
  UNCHANGED <<pc, markdownVars, calendarVars, docVars, responses, tool, runs>>

GetUserAccessToken ==
  /\ \E c \in Callers :
       /\ getCalls[c].pc = "call"
       /\ getCalls' = [getCalls EXCEPT ![c] = getStarted]
  /\ UNCHANGED <<userTokenCache, now, issued>>
  /\ TokenUntouched

\* The token endpoint answers the request of a call.
TokenAnswered ==
  /\ \E c \in Callers :
       /\ getCalls[c].pc = "refresh"
       /\ \E response \in TokenAnswers(issued + 1) :
            /\ getCalls' = [getCalls EXCEPT ![c].pc = "answered",
                                            ![c].response = Defined(response)]
            /\ issued' = IF response.kind = "ok" THEN issued + 1 ELSE issued
  /\ UNCHANGED <<userTokenCache, now>>
  /\ TokenUntouched

\* getUserAccessToken after await refreshUserToken(cache).
RefreshSettled ==
  /\ \E c \in Callers :
       /\ getCalls[c].pc = "answered"
       /\ LET refreshed == refreshUserToken(getCalls[c].cache[1], getCalls[c].response[1])
          IN IF refreshed # Undefined
             THEN /\ userTokenCache' = refreshed
                  /\ getCalls' = [getCalls EXCEPT ![c].pc = "returned",
                                    ![c].value = Defined(refreshed[1].accessToken)]
             ELSE /\ userTokenCache' = Undefined
                  /\ getCalls' = [getCalls EXCEPT ![c].pc = "returned"]
  /\ UNCHANGED <<now, issued>>
  /\ TokenUntouched

\* Time passes between the steps of the calls.
Tick ==
  /\ pc = "token"
  /\ now < MaxNow
  /\ now' = now + 1
  /\ UNCHANGED <<userTokenCache, issued, getCalls>>
  /\ TokenUntouched

InitToken ==
  /\ pc = "token"
  /\ userTokenCache \in TokenCaches
  /\ now = 0 /\ issued = 0
  /\ getCalls = [c \in Callers |-> [Idle EXCEPT !.pc = "call"]]
  /\ tool = Undefined /\ runs = <<>>
  /\ NoMarkdownRun
  /\ NoCalendarCall
  /\ NoDocCall

\* ------------------------------------------------------------------------
\* withFeishuToolClient, called on its own or by execute of feishu_sheet.

ToolParams ==
  {t \in [config : BOOLEAN, enabled : BOOLEAN, configured : BOOLEAN,
          requiredTool : {Undefined, Defined("sheet")},
          toolsCfg : [sheet : BOOLEAN],
          useUserToken : OptionalBoolean,
          execute : BOOLEAN] :
     t.execute => t.requiredTool = Defined("sheet")}

\* A variant of gateError: the tool toggles of the account are not looked at.
gateErrorNoToggle(t) ==
  IF ~t.config THEN Defined(<<"Feishu config is not available">>)
  ELSE IF ~t.enabled
  THEN Defined(<<"Feishu account \"", AccountId, "\" is disabled">>)
  ELSE IF ~t.configured
  THEN Defined(<<"Feishu account \"", AccountId, "\" is not configured">>)
  ELSE Undefined

\* The checks of withFeishuToolClient before anything is run: the error that
\* is thrown, if any.
gateError(t) ==
  IF ~t.config THEN Defined(<<"Feishu config is not available">>)
  ELSE IF ~t.enabled
  THEN Defined(<<"Feishu account \"", AccountId, "\" is disabled">>)
  ELSE IF ~t.configured
  THEN Defined(<<"Feishu account \"", AccountId, "\" is not configured">>)
  ELSE IF t.requiredTool # Undefined /\ ~t.toolsCfg[t.requiredTool[1]]
  THEN Defined(<<"Feishu tool \"", IF t.execute THEN "feishu_sheet" ELSE "tool",
                 "\" is disabled for account \"", AccountId, "\"">>)
  ELSE Undefined

\* throw: execute of feishu_sheet catches it and returns json({ error }).
ToolThrow(message) ==
  /\ pc' = (IF tool[1].execute THEN "resolved" ELSE "rejected")
  /\ result' = (IF tool[1].execute THEN Defined(json([error |-> message])) ELSE result)
  /\ error' = (IF tool[1].execute THEN error ELSE Defined(message))

\* What run returns.
RunValue == json([sheets |-> <<>>])

\* params.run({ client, account, userTokenClient }), up to its await.
StartRun(before, userTokenClient) ==
  /\ runs' = Append(before, [userTokenClient |-> userTokenClient, outcome |-> "pending"])
  /\ pc' = (IF userTokenClient = Undefined THEN "run.tenant" ELSE "run.user")
  /\ UNCHANGED <<result, error>>

Ended(outcome) == [runs EXCEPT ![Len(runs)].outcome = outcome]

ToolUntouched ==
  UNCHANGED <<markdownVars, params, calendars, calls, calendarId, docVars, responses,
              tool, now>>

WithFeishuToolClient ==
  /\ pc = "withFeishuToolClient"
  /\ IF gateError(tool[1]) # Undefined
     THEN ToolThrow(gateError(tool[1])[1]) /\ UNCHANGED <<runs, getCalls>>
     ELSE IF tool[1].useUserToken = Defined(TRUE)
     THEN /\ pc' = "token.await"
          /\ getCalls' = [getCalls EXCEPT ![1] = getStarted]
          /\ UNCHANGED <<runs, result, error>>
     ELSE StartRun(runs, Undefined) /\ UNCHANGED getCalls
  /\ UNCHANGED <<userTokenCache, issued>>
  /\ ToolUntouched

\* withFeishuToolClient after await getUserAccessToken(account.accountId).
TokenSettled ==
  /\ pc = "token.await"
  /\ getCalls[1].pc = "returned"
  /\ StartRun(runs, IF getCalls[1].value = Undefined THEN Undefined
                    ELSE Defined([token |-> getCalls[1].value[1]]))
  /\ UNCHANGED <<userTokenCache, issued, getCalls>>
  /\ ToolUntouched

\* The run with the user token has settled: its value is returned, or its
\* error is logged and run is tried with the tenant token.
UserRunSettled ==
  /\ pc = "run.user"
  /\ \E outcome \in {"return", "throw"} :
       IF outcome = "return"
       THEN /\ pc' = "resolved"
            /\ result' = Defined(RunValue)
            /\ runs' = Ended(outcome)
            /\ UNCHANGED error
       ELSE StartRun(Ended(outcome), Undefined)
  /\ UNCHANGED <<userTokenCache, issued, getCalls>>
  /\ ToolUntouched

\* The run with the tenant token has settled.
TenantRunSettled ==
  /\ pc = "run.tenant"
  /\ \E outcome \in {"return", "throw"} :
       /\ runs' = Ended(outcome)
       /\ IF outcome = "return"
          THEN pc' = "resolved" /\ result' = Defined(RunValue) /\ UNCHANGED error
          ELSE ToolThrow(<<"run error">>)
  /\ UNCHANGED <<userTokenCache, issued, getCalls>>
  /\ ToolUntouched

InitTool ==
  /\ pc = "withFeishuToolClient"
  /\ tool \in {Defined(t) : t \in ToolParams}
  /\ runs = <<>>
  /\ userTokenCache \in TokenCaches
  /\ now = 0 /\ issued = 0
  /\ getCalls = [c \in Callers |-> Idle]
  /\ NoMarkdownRun
  /\ NoCalendarCall
  /\ NoDocCall

Init ==
  \/ InitMarkdown
  \/ InitLanguage
  \/ InitCalendar
  \/ InitConvert
  \/ InitInsert
  \/ InitExecute
  \/ InitToken
  \/ InitTool

Next ==
  \/ deleteCalendarEvent
  \/ DeleteSettled
  \/ listCalendarEvents
  \/ ResolveSettled
  \/ ListSettled
  \/ Preprocess
  \/ ParseStart
  \/ SkipBlank
  \/ HeadingStep
  \/ CodeStep
  \/ DividerStep
  \/ QuoteStep
  \/ TableStep
  \/ ListStep
  \/ ParagraphStep
  \/ Return
  \/ GetLanguageCode
  \/ Execute
  \/ ReadSettled
  \/ SingleSettled
  \/ UpdateGetSettled
  \/ UpdatePatchSettled
  \/ DeleteBlockGetSettled
  \/ DeleteBlockChildrenSettled
  \/ DeleteBlockDeleteSettled
  \/ ClearListSettled
  \/ ClearDeleteSettled
  \/ ConvertMarkdown
  \/ ConvertSettled
  \/ InsertBlocks
  \/ InsertSettled
  \/ GetUserAccessToken
  \/ TokenAnswered
  \/ RefreshSettled
  \/ Tick
  \/ WithFeishuToolClient
  \/ TokenSettled
  \/ UserRunSettled
  \/ TenantRunSettled

Spec == Init /\ [][Next]_vars

\* ------------------------------------------------------------------------
\* The claims.

IsBlankInput(s) == \A k \in 1..Len(s) : s[k] \in {SP, NL}

\* "#" repeated level times, one space, the text x.
HeadingLine(level, x) == repeat(<<"#">>, level) \o <<SP>> \o x

PlainRun(x) == [text_run |-> [content |-> x]]
BoldRun(x) == [text_run |-> [content |-> x, style |-> [bold |-> TRUE]]]

\* C1: convertMarkdownToBlocks terminates on every input: the loop of
\* parseMarkdown never hangs, so after any number of iterations the index has
\* advanced by at least that many lines.
C1_ConvertTerminates == pc = "scan" => iters <= i

\* C2: every block returned has one of the nine block types of the target
\* format and exactly the payload field of that type.
EmittedTypes == {2, 3, 4, 5, 12, 13, 14, 15, 22}

PayloadField(t) ==
  CASE t = 2 -> "text" [] t = 3 -> "heading1" [] t = 4 -> "heading2"
    [] t = 5 -> "heading3" [] t = 12 -> "bullet" [] t = 13 -> "ordered"
    [] t = 14 -> "code" [] t = 15 -> "quote" [] t = 22 -> "divider"
    [] OTHER -> "none"

C2_BlockTypes ==
  pc = "done" =>
    \A k \in 1..Len(blocks) :
      /\ blocks[k].block_type \in EmittedTypes
      /\ DOMAIN blocks[k] = {"block_type", PayloadField(blocks[k].block_type)}

C2_Witness ==
  /\ pc = "done"
  /\ Cardinality({blocks[k].block_type : k \in 1..Len(blocks)}) >= 3

\* C3: for a level in 1..3, the line of level "#", a space and X converts to
\* exactly one heading block of that level holding one TextRun X without style:
\* the loop consumes the line as a heading, and the result is that block.
HeadingBlock(level, elements) ==
  CASE level = 1 -> [block_type |-> 3, heading1 |-> [elements |-> elements]]
    [] level = 2 -> [block_type |-> 4, heading2 |-> [elements |-> elements]]
    [] level = 3 -> [block_type |-> 5, heading3 |-> [elements |-> elements]]

C3_HeadingMapping ==
  \A level \in 1..3 :
    (raw = HeadingLine(level, <<"X">>) /\ npre = 0) =>
      /\ (pc = "scan" /\ iters >= 1) =>
           (i = 1 /\ nodes = <<[type |-> "heading", level |-> level,
                                content |-> <<"X">>]>>)
      /\ pc = "done" => blocks = <<HeadingBlock(level, <<PlainRun(<<"X">>)>>)>>

\* C4: for a level in 4..6, a heading line with text X converts to exactly one
\* Text block whose only element is a bold TextRun of the raw text X, inline
\* markup in X staying literal.
C4_HeadingDegrade ==
  \A level \in 4..6 : \A x \in HeadingTexts :
    (raw = HeadingLine(level, x) /\ npre = 0) =>
      /\ (pc = "scan" /\ iters >= 1) =>
           (i = 1 /\ nodes = <<[type |-> "heading", level |-> level,
                                content |-> x]>>)
      /\ pc = "done" =>
           blocks = <<[block_type |-> 2, text |-> [elements |-> <<BoldRun(x)>>]]>>

\* C5: preprocessMarkdown is idempotent: a second application changes nothing.
C5_Idempotent == npre >= 2 => text = prev

\* C6: the output of preprocessMarkdown holds no carriage return, and no run
\* of three or more blank lines (where no heading or fence made it add lines).
HasBlankRun(s) ==
  \E k \in 1..(Len(s) - 3) : SubSeq(s, k, k + 3) = <<NL, NL, NL, NL>>

C6_Normalized ==
  npre >= 1 =>
    /\ ~includes(text, CR)
    /\ (~includes(prev, "#") /\ ~includes(prev, BT)) => ~HasBlankRun(text)

\* C7: for an input of spaces and line feeds only (the empty string too),
\* preprocessMarkdown then convertMarkdownToBlocks returns the empty list.
C7_BlankInput ==
  (IsBlankInput(raw) /\ npre = 1) =>
    /\ pc = "scan" => iters <= i
    /\ pc = "done" => blocks = <<>>

C7_Witness ==
  /\ pc = "done" /\ npre = 1
  /\ IsBlankInput(raw) /\ includes(raw, SP) /\ includes(raw, NL)
  /\ blocks = <<>>

\* C8: getLanguageCode returns the code LANGUAGE_MAP holds for the tag in
\* lower case, and the number 0 for an undefined, empty or unknown tag.
C8_LanguageCode ==
  pc = "langdone" =>
    code = Defined(Num(IF tag # Undefined /\ toLowerCase(tag[1]) \in LanguageKeys
                       THEN (CHOOSE e \in LANGUAGE_MAP : e[1] = toLowerCase(tag[1]))[2]
                       ELSE 0))

KnownToLookup(t) == languageLookup(toLowerCase(t)) # Undefined

Min(S) == CHOOSE x \in S : \A y \in S : x <= y

C10_FenceContent ==
  [][(pc = "scan" /\ i < Len(lines) /\ construct(LineAt(lines, i)) = "code"
        /\ iters' = iters + 1) =>
      LET closing == {j \in (i + 2)..Len(lines) : startsWith(trim(lines[j]), Fence)}
          close   == IF closing = {} THEN Len(lines) + 1 ELSE Min(closing)
          between == [k \in 1..(close - i - 2) |-> lines[i + 1 + k]]
      IN /\ Len(nodes') = Len(nodes) + 1
         /\ SubSeq(nodes', 1, Len(nodes)) = nodes
         /\ nodes'[Len(nodes')].type = "code"
         /\ nodes'[Len(nodes')].content = join(between, <<NL>>)
         /\ i' = close
         /\ closing = {} => i' >= Len(lines)]_vars

C10_Witness ==
  /\ pc = "done"
  /\ Len(lines) = 3
  /\ construct(lines[1]) = "code"
  /\ lines[2] = <<SP, "y", SP>>
  /\ startsWith(trim(lines[3]), Fence)
  /\ nodes = <<[type |-> "code", language |-> Undefined,
                content |-> <<SP, "y", SP>>]>>

\* C11: a table whose rows all have the same number of cells converts to
\* exactly one Code block with language 0 whose single TextRun is, joined by
\* line feeds, the rule, the header row, the rule, each data row and the rule,
\* the rule being "+", for each column w + 2 "-" joined by "+", and "+", w the
\* longest cell of the column, and a row "|", each cell between two spaces and
\* padded to w joined by "|", and "|"; the three-line example converts to
\* exactly the five lines of the documentation.
UniformRows(rows) == \A r \in 1..Len(rows) : Len(rows[r]) = Len(rows[1])

ColumnWidth(rows, j) == Max({Len(rows[r][j]) : r \in 1..Len(rows)})

TableRule(rows) ==
  <<"+">>
    \o join([j \in 1..Len(rows[1]) |-> repeat(<<"-">>, ColumnWidth(rows, j) + 2)],
            <<"+">>)
    \o <<"+">>

TableRow(rows, r) ==
  <<"|">>
    \o join([j \in 1..Len(rows[1]) |->
               <<SP>> \o rows[r][j]
                 \o repeat(<<SP>>, ColumnWidth(rows, j) - Len(rows[r][j])) \o <<SP>>],
            <<"|">>)
    \o <<"|">>

TableText(rows) ==
  join(<<TableRule(rows), TableRow(rows, 1), TableRule(rows)>>
         \o [r \in 1..(Len(rows) - 1) |-> TableRow(rows, r + 1)]
         \o <<TableRule(rows)>>,
       <<NL>>)

PlainCode(content) ==
  [block_type |-> 14,
   code |-> [elements |-> <<PlainRun(content)>>,
             style |-> Defined([language |-> Num(0)])]]

TableExampleText ==
  <<"+", "-", "-", "-", "+", "-", "-", "-", "-", "+", NL,
    "|", SP, "A", SP, "|", SP, "B", "B", SP, "|", NL,
    "+", "-", "-", "-", "+", "-", "-", "-", "-", "+", NL,
    "|", SP, "1", SP, "|", SP, "2", "2", SP, "|", NL,
    "+", "-", "-", "-", "+", "-", "-", "-", "-", "+">>

C11_TableRendering ==
  pc = "done" =>
    /\ Len(blocks) = Len(nodes)
    /\ \A k \in 1..Len(nodes) :
         (nodes[k].type = "table" /\ UniformRows(nodes[k].rows)) =>
           blocks[k] = PlainCode(TableText(nodes[k].rows))
    /\ raw = TableExample =>
         /\ nodes = <<[type |-> "table",
                       rows |-> <<<<<<"A">>, <<"B", "B">>>>,
                                  <<<<"1">>, <<"2", "2">>>>>>]>>
         /\ blocks = <<PlainCode(TableExampleText)>>

C11_Witness ==
  /\ pc = "done"
  /\ raw = TableExample
  /\ blocks = <<PlainCode(TableExampleText)>>

\* C12 as stated: an iteration at a table construct that has fewer than two
\* usable rows, the alignment row removed, appends no node (so no block), and
\* leaves the nodes before it as they were.
TableIteration ==
  /\ pc = "scan"
  /\ i < Len(lines)
  /\ construct(LineAt(lines, i)) = "table"
  /\ iters' = iters + 1

TableLines == SubSeq(lines, i + 1, tableEnd(lines, i))

UsableRows(ls) ==
  LET all == tableRows(ls)
  IN IF Len(all) >= 2 /\ \A k \in 1..Len(all[2]) : alignmentCell(all[2][k])
     THEN <<all[1]>> \o SubSeq(all, 3, Len(all))
     ELSE all

C12_FewRowsDropped ==
  [][(TableIteration /\ Len(UsableRows(TableLines)) < 2) => nodes' = nodes]_vars

\* C12 as amended: a table construct of one line, or without any usable row,
\* appends no node and leaves the nodes before it as they were; a table
\* construct of two or more lines with at least one usable row, the alignment
\* row removed (a header followed only by its alignment row has one), appends
\* one table node of these rows, and every table node becomes one Code block.
C12_EmptyTableDropped ==
  [][/\ TableIteration =>
          /\ TableLines # <<>>
          /\ i' = i + Len(TableLines)
          /\ (Len(TableLines) < 2 \/ UsableRows(TableLines) = <<>>) =>
               nodes' = nodes
          /\ (Len(TableLines) >= 2 /\ UsableRows(TableLines) # <<>>) =>
               nodes' = Append(nodes, [type |-> "table",
                                       rows |-> UsableRows(TableLines)])
     /\ (pc = "scan" /\ pc' = "done") =>
          /\ Len(blocks') = Len(nodes)
          /\ \A k \in 1..Len(nodes) :
               nodes[k].type = "table" => blocks'[k].block_type = 14]_vars

C12_Witness ==
  /\ pc = "done"
  /\ raw = <<"x", NL, "a", "|", "b", NL, "x">>
  /\ nodes = <<[type |-> "paragraph", content |-> <<"x">>],
               [type |-> "paragraph", content |-> <<"x">>]>>
  /\ Len(blocks) = 2

\* C13: n consecutive item lines with the marker "-" convert to exactly one
\* Bullet block (12) with n elements, the k-th a TextRun without style whose
\* content is the text of the k-th item, "**b**" and "[t](u)" staying literal;
\* with the markers "1.", "2.", ... the same holds with an Ordered block (13).
\* The first iteration of the loop consumes the n lines as one list node.
ListBlockOf(ordered, items) ==
  LET elements == [k \in 1..Len(items) |-> PlainRun(items[k])]
  IN IF ordered
     THEN [block_type |-> 13, ordered |-> [elements |-> elements]]
     ELSE [block_type |-> 12, bullet |-> [elements |-> elements]]

LinkTo(url, content) == [link |-> [url |-> url, content |-> content]]

QuoteIteration ==
  /\ pc = "scan"
  /\ i < Len(lines)
  /\ construct(LineAt(lines, i)) = "quote"
  /\ iters' = iters + 1

QuotedUpTo(j) == \A k \in (i + 1)..j : startsWith(trim(lines[k]), <<">">>)

C14_QuoteJoined ==
  [][/\ QuoteIteration =>
          /\ i' > i
          /\ QuotedUpTo(i')
          /\ i' < Len(lines) => ~QuotedUpTo(i' + 1)
          /\ nodes' = Append(nodes,
               [type |-> "quote",
                content |-> join([k \in 1..(i' - i) |->
                                    trim(Tail(trim(lines[i + k])))], <<NL>>)])
     /\ (pc = "scan" /\ pc' = "done" /\ raw = QuoteExample) =>
          blocks' = <<[block_type |-> 15,
                       quote |-> [elements |->
                         <<PlainRun(<<"p", "a", "r", "t", SP>>),
                           LinkTo(<<"h", "t", "t", "p", ":", "/", "/", "x">>,
                                  <<"o", "n", "e">>),
                           PlainRun(<<NL, "p", "a", "r", "t", SP,
                                      "t", "w", "o">>)>>]]>>]_vars

\* C15: at every scan position the non-blank line is given to the first rule
\* it matches, in the order heading, fenced code, divider, block quote, table,
\* list item, paragraph, the rules being those of Markdown: one to six "#",
\* white space and text; three backticks; "---", "***" or "___"; ">"; a "|"
\* anywhere; white space, one of "-", "*", "+" or digits and a dot, and white
\* space.  The iteration appends a node of that rule (a table may be dropped).
WhiteSpace == {" ", "\t", "\r"}
Digits == {"0", "1", "2", "3", "4", "5", "6", "7", "8", "9"}

MarkdownHeading(t) ==
  LET h == Run(t, 1, {"#"})
      w == Run(t, h + 1, WhiteSpace)
  IN h \in 1..6 /\ w >= 1 /\ h + w < Len(t)
       /\ NoLineTerminator(SubSeq(t, h + w + 1, Len(t)))

MarkdownDivider(t) ==
  t \in {<<"-", "-", "-">>, <<"*", "*", "*">>, <<"_", "_", "_">>}

MarkdownListItem(l) ==
  LET a == Run(l, 1, WhiteSpace)
      d == Run(l, a + 1, Digits)
  IN \/ CharAt(l, a + 1) \in {"-", "*", "+"} /\ CharAt(l, a + 2) \in WhiteSpace
     \/ d >= 1 /\ CharAt(l, a + d + 1) = "." /\ CharAt(l, a + d + 2) \in WhiteSpace

RuleOf(line) ==
  LET trimmed == trim(line)
  IN IF MarkdownHeading(trimmed) THEN "heading"
     ELSE IF startsWith(trimmed, Fence) THEN "code"
     ELSE IF MarkdownDivider(trimmed) THEN "divider"
     ELSE IF startsWith(trimmed, <<">">>) THEN "quote"
     ELSE IF includes(trimmed, "|") THEN "table"
     ELSE IF MarkdownListItem(line) THEN "list"
     ELSE "paragraph"

NoMarkup(s) == ~includes(s, "[") /\ ~includes(s, "*")

TextBlockOf(elements) == [block_type |-> 2, text |-> [elements |-> elements]]

C16_InlineStyles ==
  pc = "done" =>
    /\ \A k \in 1..Len(nodes) :
         (nodes[k].type = "paragraph" /\ NoMarkup(nodes[k].content)
            /\ Len(blocks) = Len(nodes)) =>
           blocks[k] = TextBlockOf(<<PlainRun(nodes[k].content)>>)
    /\ raw = <<"a", "*", "*", "b", "*", "*", "c">> =>
         blocks = <<TextBlockOf(<<PlainRun(<<"a">>), BoldRun(<<"b">>),
                                  PlainRun(<<"c">>)>>)>>
    /\ raw = <<"s", "e", "e", SP, "[", "l", "]", "(", "u", ")", SP, "e", "n", "d">> =>
         blocks = <<TextBlockOf(<<PlainRun(<<"s", "e", "e", SP>>),
                                  LinkTo(<<"u">>, <<"l">>),
                                  PlainRun(<<SP, "e", "n", "d">>)>>)>>

\* C18 as stated: deleteCalendarEvent with a non-empty calendar_id and a
\* non-empty event_id rejects with the error "confirm must be true" and makes
\* no calendarEvent.delete call unless confirm is true; with confirm true it
\* makes exactly one delete call for that calendar_id and event_id and, the
\* call answered, returns success: true.
DeleteRun == params # Undefined /\ "confirm" \in DOMAIN params

NonEmpty(v) == v # Undefined /\ v[1] # <<>>
NonBlank(v) == v # Undefined /\ trim(v[1]) # <<>>

ConfirmError ==
  Defined("Deletion rejected: confirm must be true to execute feishu_calendar_delete_event.")

DeleteCall ==
  ApiCall("calendarEvent.delete",
          [path |-> [calendar_id |-> trim(params.calendar_id[1]),
                     event_id |-> trim(params.event_id[1])]])

DeleteGuarded ==
  /\ params.confirm # Defined(TRUE) =>
       /\ calls = <<>>
       /\ pc \in {"delete", "rejected"}
       /\ pc = "rejected" => error = ConfirmError
  /\ params.confirm = Defined(TRUE) =>
       /\ pc # "delete" => calls = <<DeleteCall>>
       /\ pc \in {"delete", "deleteAwait", "resolved", "rejected"}
       /\ pc = "rejected" =>
            error = Defined("calendar.v4.calendarEvent.delete failed")
       /\ pc = "resolved" =>
            result = Defined([success |-> TRUE,
                              calendar_id |-> trim(params.calendar_id[1]),
                              event_id |-> trim(params.event_id[1]),
                              confirm |-> TRUE])

ListRun == params # Undefined /\ "start_time" \in DOMAIN params

FirstCalendarId ==
  LET first == calendars[1][1]
  IN Coalesce(first.calendar_id, Coalesce(first.calendarId, first.id))

NoCalendar == calendars = Undefined \/ calendars[1] = <<>>

C19_ResolveThenList ==
  ListRun =>
    /\ NonBlank(params.calendar_id) =>
         /\ \A k \in 1..Len(calls) : calls[k].method # "calendar.list"
         /\ \A k \in 1..Len(calls) :
              calls[k].payload.path.calendar_id = trim(params.calendar_id[1])
         /\ pc = "resolved" =>
              /\ Len(calls) = 1
              /\ result[1].calendar_id = trim(params.calendar_id[1])
    /\ ~NonBlank(params.calendar_id) =>
         /\ pc # "list" =>
              /\ calls # <<>>
              /\ calls[1] = ApiCall("calendar.list", [params |-> [page_size |-> 1]])
         /\ \A k \in 2..Len(calls) :
              /\ k = 2
              /\ calls[k].method = "calendarEvent.list"
              /\ ~NoCalendar
              /\ Defined(calls[k].payload.path.calendar_id) = FirstCalendarId
         /\ pc = "resolved" =>
              /\ Len(calls) = 2
              /\ Defined(result[1].calendar_id) = FirstCalendarId
         /\ NoCalendar =>
              /\ pc \in {"list", "resolveAwait", "rejected"}
              /\ Len(calls) <= 1

C19_Witness ==
  /\ ListRun
  /\ pc = "resolved"
  /\ params.calendar_id = Undefined
  /\ calls[1].method = "calendar.list"
  /\ calls[2].method = "calendarEvent.list"
  /\ calls[2].payload.path.calendar_id = <<"p", "r", "i">>
  /\ result[1].calendar_id = <<"p", "r", "i">>

\* C20: every iteration of the main loop moves the scan index forward; an
\* iteration that reaches the paragraph fallback consumes the current line and
\* the non-blank lines after it up to, not including, the first that starts a
\* block, and appends one paragraph node of these lines joined by single spaces.
ParagraphLine(k) == trim(lines[k]) # <<>> /\ ~isBlockStart(lines[k])

C20_ScanProgress ==
  [][(pc = "scan" /\ iters' = iters + 1) =>
       /\ i' > i
       /\ construct(LineAt(lines, i)) = "paragraph" =>
            /\ \A k \in (i + 2)..i' : ParagraphLine(k)
            /\ i' < Len(lines) => ~ParagraphLine(i' + 1)
            /\ nodes' = Append(nodes,
                 [type |-> "paragraph",
                  content |-> trim(join(SubSeq(lines, i + 1, i'), <<SP>>))])]_vars

\* C21: an iteration at a list line takes no line that starts another block
\* type: a heading, fence, quote or table line that follows a list item is
\* not among the lines the list consumes: it ends the list and is left for
\* the next iteration.
OtherBlockStart(line) ==
  construct(line) \in {"heading", "code", "quote", "table"}

ListIteration ==
  /\ pc = "scan"
  /\ iters' = iters + 1
  /\ construct(LineAt(lines, i)) = "list"

C21_ListStops ==
  [][ListIteration =>
       \A k \in (i + 2)..i' : ~OtherBlockStart(lines[k])]_vars

\* C22: every block that holds inline elements holds at least one, every
\* element is a Link or a TextRun, and the only style a TextRun carries is
\* bold (never italic, code, underline or strikethrough); the quoted texts
\* "*t*" and "`t`" stay literal: the contents of the elements, put together,
\* are the text with its asterisks or backticks.
ElementsOf(block) == block[PayloadField(block.block_type)].elements

ElementText(e) ==
  IF "link" \in DOMAIN e THEN e.link.content ELSE e.text_run.content

RECURSIVE ElementsText(_)
ElementsText(es) ==
  IF es = <<>> THEN <<>> ELSE ElementText(Head(es)) \o ElementsText(Tail(es))

LiteralSpans == {<<"*", "t", "*">>, <<BT, "t", BT>>}

DroppedTable(node) == node.type = "table" /\ node.rows = <<>>

KeptNodes == SelectSeq(nodes, LAMBDA n : ~DroppedTable(n))

NodeBlockTypes(node) ==
  CASE node.type = "heading"   -> IF node.level <= 3 THEN {2 + node.level} ELSE {2}
    [] node.type = "paragraph" -> {2}
    [] node.type = "code"      -> {14}
    [] node.type = "quote"     -> {15}
    [] node.type = "divider"   -> {22}
    [] node.type = "list"      -> IF node.ordered THEN {13} ELSE {12}
    [] node.type = "table"     -> {14}
    [] OTHER                   -> {}

BlocksFollowNodes ==
  pc = "done" =>
    /\ Len(blocks) = Len(KeptNodes)
    /\ \A k \in 1..Len(blocks) :
         blocks[k].block_type \in NodeBlockTypes(KeptNodes[k])

NodesOnlyGrow ==
  /\ Len(nodes') >= Len(nodes)
  /\ SubSeq(nodes', 1, Len(nodes)) = nodes
  /\ (pc = "scan" /\ pc' = "scan") => i' >= i

C23_OrderAndCount == [](BlocksFollowNodes) /\ [][NodesOnlyGrow]_vars

C23_Witness ==
  /\ pc = "done"
  /\ Len(nodes) >= 3
  /\ Len(blocks) = Len(nodes)
  /\ nodes[1].type # nodes[2].type
  /\ nodes[2].type # nodes[3].type

\* C24: convertMarkdownLocal (preprocessMarkdown once, then the conversion)
\* keeps the tag of a fence: the document of a fence with a tag L that
\* LANGUAGE_MAP knows, a line feed and "x" converts to exactly one Code block
\* whose language is getLanguageCode(L) and whose content is "x", without L
\* as a first line.
KnownFenceTags == {t \in FenceTags : toLowerCase(t) \in LanguageKeys}

C24_FenceTagKept ==
  \A t \in KnownFenceTags :
    (raw = Fence \o t \o <<NL, "x">> /\ npre = 1 /\ pc = "done") =>
      blocks = <<[block_type |-> 14,
                  code |-> [elements |-> <<PlainRun(<<"x">>)>>,
                            style |-> Defined([language |->
                                                 getLanguageCode(Defined(t))])]]>>

\* C25: a call of convertMarkdown with preferLocal set makes no convert call
\* and, when it returns, returns the local converter's blocks with method
\* "local"; otherwise it makes exactly one convert call first; answered with
\* code 0 it returns with method "api"; answered with another code or with an
\* exception it returns, when the local converter returns, the local
\* converter's blocks with method "local" and one warning that names the API
\* failure, unless fallbackToLocal is false: then it rejects with the API
\* error, and the local converter is not run (no result, and no waiting for a
\* local conversion that does not return).
ConvertRun == entry = Defined("convertMarkdown")
PreferLocal == options # Undefined /\ options[1].preferLocal = Defined(TRUE)
FallbackOff == options # Undefined /\ options[1].fallbackToLocal = Defined(FALSE)
ConvertSettledStates == {"resolved", "rejected", "hang"}

ApiFailure ==
  IF responses[1] = "code" THEN <<"API convert failed: ", RemoteMsg>> ELSE RemoteError

ReturnsLocal(warnings) ==
  /\ pc # "rejected"
  /\ pc = "hang" <=> convertMarkdownLocal(markdown[1]) = Undefined
  /\ pc = "resolved" =>
       result = Defined([blocks |-> convertMarkdownLocal(markdown[1])[1].blocks,
                         warnings |-> warnings,
                         method |-> "local"])

C25_FallbackProtocol ==
  ConvertRun =>
    /\ PreferLocal =>
         /\ calls = <<>> /\ responses = <<>>
         /\ pc \in ConvertSettledStates => ReturnsLocal(Undefined)
    /\ (~PreferLocal /\ pc \in ConvertSettledStates) =>
         /\ calls = <<ApiCall("docx.document.convert", ConvertPayload(markdown[1]))>>
         /\ Len(responses) = 1
         /\ responses[1] = "ok" =>
              /\ pc = "resolved"
              /\ result[1].method = "api"
              /\ result[1].warnings = Undefined
         /\ (responses[1] # "ok" /\ ~FallbackOff) =>
              ReturnsLocal(Defined(<<<<"API conversion failed: ", ApiFailure,
                                       ". Falling back to local converter.">>>>))
         /\ (responses[1] # "ok" /\ FallbackOff) =>
              /\ pc = "rejected"
              /\ error = Defined(ApiFailure)
              /\ result = Undefined

C25_Witness ==
  /\ ConvertRun
  /\ pc = "resolved"
  /\ options = Defined([preferLocal |-> Defined(FALSE), fallbackToLocal |-> Undefined])
  /\ responses = <<"code">>
  /\ markdown = Defined(<<"x">>)
  /\ result[1].method = "local"
  /\ Len(result[1].blocks) = 1

\* C26: insertBlocks splits its blocks in two: the blocks of a type other
\* than 24 and 25, which are the children of the one create call, in their
\* order and without block_id, parent_id, children and document_id, and the
\* others, each named once in skipped, so that the two together count the
\* input; no child of a create call has type 24 or 25; and there is no create
\* call at all when no block is left to insert.
InsertRun == entry = Defined("insertBlocks") /\ pc # "insertBlocks"
ReadOnlyFields == {"block_id", "parent_id", "children", "document_id"}
Creatable(block) == block.block_type \notin {24, 25}
CreateCalls == SelectSeq(calls, LAMBDA c : c.method = "docx.documentBlockChildren.create")

WriteRun == InExecute /\ params.action = "write" /\ configured = Defined(TRUE)
AppendRun == InExecute /\ params.action = "append" /\ configured = Defined(TRUE)
Methods == [k \in 1..Len(calls) |-> calls[k].method]
Called(method) == \E k \in 1..Len(calls) : Methods[k] = method
TopLevel(doc) == SelectSeq(doc, LAMBDA b : b.parent_id = DocToken /\ b.block_type # 1)
BlocksIn(doc) == {doc[k] : k \in 1..Len(doc)}
ClearMethods == {"docx.documentBlock.list", "docx.documentBlockChildren.batchDelete"}
NoBlocks == converted # Undefined /\ Len(converted[1].blocks) = 0

WriteOrder ==
  WriteRun =>
    /\ \A j \in 1..Len(calls) :
         /\ Methods[j] = "docx.document.convert" =>
              /\ j \in {2, 3}
              /\ Methods[1] = "docx.documentBlock.list"
              /\ j = 3 => Methods[2] = "docx.documentBlockChildren.batchDelete"
              /\ \A k \in 1..(j - 1) : responses[k] = "ok"
         /\ Methods[j] \in ClearMethods =>
              \A k \in 1..j : Methods[k] \in ClearMethods
         /\ Methods[j] = "docx.documentBlockChildren.create" =>
              /\ Methods[j - 1] = "docx.document.convert"
              /\ converted # Undefined
              /\ Len(converted[1].blocks) >= 1
    /\ pc = "convert.await" => TopLevel(document[1]) = <<>>
    /\ NoBlocks =>
         /\ pc = "resolved"
         /\ result[1].details.success /\ result[1].details.blocks_added = 0
         /\ ~Called("docx.documentBlockChildren.create")

AppendOrder ==
  AppendRun =>
    /\ ~Called("docx.documentBlockChildren.batchDelete")
    /\ ~Called("docx.documentBlock.list")
    /\ NoBlocks =>
         /\ pc = "resolved"
         /\ result[1].details = [error |-> "Content is empty"]
         /\ ~Called("docx.documentBlockChildren.create")

NothingRestored ==
  /\ WriteRun =>
       \A b \in BlocksIn(document'[1]) :
         b \in BlocksIn(document[1]) \/ b.block_id \in {NewId(k) : k \in 1..3}
  /\ AppendRun => BlocksIn(document[1]) \subseteq BlocksIn(document'[1])

C27_WriteSteps == [](WriteOrder /\ AppendOrder) /\ [][NothingRestored]_vars

\* A write that deleted two top-level blocks and then failed to insert: the
\* document is left with its page block only.
C27_Witness ==
  /\ WriteRun
  /\ pc = "resolved"
  /\ deleted = Defined(2)
  /\ Methods = <<"docx.documentBlock.list", "docx.documentBlockChildren.batchDelete",
                 "docx.document.convert", "docx.documentBlockChildren.create">>
  /\ responses = <<"ok", "ok", "ok", "code">>
  /\ "error" \in DOMAIN result[1].details
  /\ document = Defined(<<Page>>)

\* C28 as stated: execute never rejects; once it has resolved, its result is
\* json of its details, the details hold an error whenever the client could
\* not be created or a remote call failed, and an action outside the nine
\* gives the Unknown action error with no remote call.
ExecuteDone == InExecute /\ pc = "resolved"
NeverRejects == InExecute => pc # "rejected" /\ error = Undefined
Details == result[1].details
ReturnsError == "error" \in DOMAIN Details
UnknownAction == params.action \notin DocActions
SomeCallFailed == \E k \in 1..Len(responses) : responses[k] # "ok"

C28_AlwaysErrorResult ==
  /\ NeverRejects
  /\ ExecuteDone =>
       /\ result[1] = json(Details)
       /\ (configured # Defined(TRUE) \/ SomeCallFailed) => ReturnsError
       /\ UnknownAction =>
            /\ Details = [error |-> <<"Unknown action: ", params.action>>]
            /\ calls = <<>>

\* C28: execute never rejects; once it has resolved, its result is json of its
\* details; the details hold an error when the client could not be created or
\* when a remote call failed, other than the convert call of write and append
\* (the local converter takes over) and a non-zero code of document.get or
\* documentBlock.list in read (not looked at); a write whose list, delete,
\* convert and create calls succeed reports success whatever happens to its
\* images; and an action outside the nine makes no remote call and gives the
\* Unknown action error when the client was created, the error of the client
\* otherwise.
Tolerated(k) ==
  \/ Methods[k] = "docx.document.convert"
  \/ params.action = "read" /\ k \in {2, 3} /\ responses[k] = "code"
UntoleratedFailure ==
  \E k \in 1..Len(responses) : responses[k] # "ok" /\ ~Tolerated(k)
ClientError ==
  [error |-> <<"Feishu credentials not configured for account ", "default">>]

C28_ErrorResults ==
  /\ NeverRejects
  /\ ExecuteDone =>
       /\ result[1] = json(Details)
       /\ configured # Defined(TRUE) => Details = ClientError /\ calls = <<>>
       /\ UntoleratedFailure => ReturnsError
       /\ (params.action = "write" /\ configured = Defined(TRUE) /\ ~SomeCallFailed) =>
            ~ReturnsError /\ Details.success
       /\ UnknownAction =>
            /\ calls = <<>>
            /\ configured = Defined(TRUE) =>
                 Details = [error |-> <<"Unknown action: ", params.action>>]

\* An update whose second call throws: the error is the result.
C28_Witness ==
  /\ ExecuteDone
  /\ params.action = "update_block"
  /\ responses = <<"ok", "throw">>
  /\ result = Defined(json([error |-> RemoteError]))

\* C29: with the calls of getUserAccessToken interleaved in any way, a call
\* that read the entry before another call stored a refreshed token neither
\* removes that token from the cache nor replaces it by a token issued
\* earlier; a call returns null only when it found no entry or its own
\* refresh failed; and a call that found an entry that was not expired
\* returns its token and makes no refresh request.
ReadExpired(call) ==
  call.cache # Undefined /\ call.readAt + bufferMs >= call.cache[1].expiresAt
Requested(call) == call.pc \in {"refresh", "answered"} \/ call.response # Undefined
RefreshFailed(call) ==
  call.response # Undefined /\ call.response[1].kind \in RefreshFailures

ReturnsRight ==
  \A c \in Callers :
    /\ Requested(getCalls[c]) => ReadExpired(getCalls[c])
    /\ getCalls[c].pc = "returned" =>
         /\ getCalls[c].value = Undefined =>
              getCalls[c].cache = Undefined \/ RefreshFailed(getCalls[c])
         /\ (getCalls[c].cache # Undefined /\ ~ReadExpired(getCalls[c])) =>
              /\ getCalls[c].value = Defined(getCalls[c].cache[1].accessToken)
              /\ ~Requested(getCalls[c])

RefreshedKept ==
  \A c \in Callers :
    (/\ getCalls[c].pc = "answered" /\ getCalls'[c].pc = "returned"
     /\ userTokenCache # Undefined
     /\ userTokenCache[1].accessToken > getCalls[c].cache[1].accessToken)
    => /\ userTokenCache' # Undefined
       /\ userTokenCache'[1].accessToken >= userTokenCache[1].accessToken

C29_CacheConsistency == []ReturnsRight /\ [][RefreshedKept]_vars

\* C30: withFeishuToolClient never invokes run, and throws, when the config
\* is missing, the account is disabled or not configured, or the required
\* tool is switched off for the account; unless useUserToken is set it
\* invokes run once, without a userTokenClient; with useUserToken and a user
\* token it invokes run first with a userTokenClient made of that token and,
\* only when that invocation has thrown, a second and last time without one;
\* run is never invoked more than twice.
ToolCalled == tool # Undefined /\ pc # "withFeishuToolClient"
Gated ==
  \/ ~tool[1].config \/ ~tool[1].enabled \/ ~tool[1].configured
  \/ tool[1].requiredTool # Undefined /\ ~tool[1].toolsCfg.sheet
Thrown ==
  IF tool[1].execute THEN pc = "resolved" /\ "error" \in DOMAIN result[1].details
  ELSE pc = "rejected" /\ error # Undefined
WithUser(run) == run.userTokenClient # Undefined
UserToken == getCalls[1].value

C30_RunGate ==
  /\ tool # Undefined => runs = <<>> \/ ~Gated
  /\ ToolCalled =>
       /\ Len(runs) <= 2
       /\ Gated => runs = <<>> /\ Thrown
       /\ (~Gated /\ tool[1].useUserToken # Defined(TRUE)) =>
            Len(runs) = 1 /\ ~WithUser(runs[1])
       /\ (~Gated /\ tool[1].useUserToken = Defined(TRUE) /\ pc # "token.await") =>
            /\ Len(runs) >= 1
            /\ WithUser(runs[1]) <=> UserToken # Undefined
            /\ WithUser(runs[1]) => runs[1].userTokenClient[1].token = UserToken[1]
            /\ ~WithUser(runs[1]) => Len(runs) = 1
       /\ pc = "token.await" => runs = <<>>
       /\ \A k \in 1..Len(runs) : WithUser(runs[k]) => k = 1
       /\ Len(runs) = 2 <=> (Len(runs) >= 1 /\ WithUser(runs[1]) /\ runs[1].outcome = "throw")

\* The run with a refreshed user token threw and the run with the tenant
\* token returned.
C30_Witness ==
  /\ ToolCalled
  /\ pc = "resolved"
  /\ tool[1].useUserToken = Defined(TRUE)
  /\ UserToken = Defined(1)
  /\ Len(runs) = 2
  /\ runs[1] = [userTokenClient |-> Defined([token |-> 1]), outcome |-> "throw"]
  /\ runs[2] = [userTokenClient |-> Undefined, outcome |-> "return"]
  /\ result = Defined(RunValue)

====
